---------------------------- MODULE Spec2Model ----------------------------
(***************************************************************************)
(* Model of glide-pdf-service: the five POST /generate handlers            *)
(*   "dyn"  src/server.js 1-187      dynamic grid, images only             *)
(*   "y"    src/server.js 189-505    two-column flow, y cursor             *)
(*   "col"  src/server.js 507-827    two-column flow, column state         *)
(*   "grid" src/unnamed/part_000     fixed 4x2 grid per scene              *)
(*   "row"  src/unnamed/part_001     two-column flow, row index            *)
(* A JavaScript string is a sequence of one-character strings; lengths are *)
(* in units of 1/6000 pt so that every division of the layout is exact.    *)
(* pdfkit draws where it is told to: text that wraps past the bottom       *)
(* margin, which makes pdfkit add a page of its own, is not modelled.      *)
(***************************************************************************)
EXTENDS Integers, Sequences, FiniteSets, TLC

\* ------------------------------------------------------------------ bounds
\* longest list of a request of the general specification
MaxShots == 2
\* longest shot list of the layout specification
MaxLayoutShots == 9
\* longest shot list of the two-request specification
ConcShots == 2
\* latest clock reading (milliseconds)
MaxTime == 1
\* longest shot list of the field specification
MaxFieldShots == 2
\* longest shot list of the paired specification
PairShots == 7
\* longest shot list of the fair specification
LiveShots == 6
\* most images of a request of the dynamic-grid specification
DynImages == 23

Reqs == {1, 2}
Variants == {"dyn", "y", "col", "grid", "row"}
Flow == {"y", "col", "row"}

\* ----------------------------------------------------------------- strings
Spaces == {" "}
SEP == <<"|", "|", "|">>
COMMA == <<",">>
NoStr == <<>>

StartsWith(s, p) == Len(s) >= Len(p) /\ SubSeq(s, 1, Len(p)) = p

RECURSIVE SplitFrom(_, _, _)
SplitFrom(s, sep, cur) ==
  IF s = <<>> THEN <<cur>>
  ELSE IF StartsWith(s, sep)
       THEN <<cur>> \o SplitFrom(SubSeq(s, Len(sep) + 1, Len(s)), sep, <<>>)
       ELSE SplitFrom(Tail(s), sep, Append(cur, Head(s)))

\* String.prototype.split with a non-empty separator
Split(s, sep) == SplitFrom(s, sep, <<>>)

RECURSIVE TrimStart(_)
TrimStart(s) ==
  IF s # <<>> /\ Head(s) \in Spaces THEN TrimStart(Tail(s)) ELSE s

RECURSIVE TrimEnd(_)
TrimEnd(s) ==
  IF s # <<>> /\ s[Len(s)] \in Spaces THEN TrimEnd(SubSeq(s, 1, Len(s) - 1)) ELSE s

\* String.prototype.trim
Trim(s) == TrimEnd(TrimStart(s))

\* Array.prototype.map
Map(a, F(_)) == [i \in 1..Len(a) |-> F(a[i])]

\* Array.prototype.filter(Boolean) on an array of strings
RECURSIVE FilterBoolean(_)
FilterBoolean(a) ==
  IF a = <<>> THEN <<>>
  ELSE IF Head(a) # NoStr THEN <<Head(a)>> \o FilterBoolean(Tail(a))
       ELSE FilterBoolean(Tail(a))

RECURSIVE Join(_, _)
Join(a, sep) ==
  IF a = <<>> THEN <<>>
  ELSE IF Len(a) = 1 THEN a[1]
       ELSE a[1] \o sep \o Join(Tail(a), sep)

DigitChars == <<"0", "1", "2", "3", "4", "5", "6", "7", "8", "9">>

\* the decimal digits a template literal prints for a non-negative integer
RECURSIVE Digits(_)
Digits(n) ==
  IF n < 10 THEN <<DigitChars[n + 1]>>
  ELSE Digits(n \div 10) \o <<DigitChars[(n % 10) + 1]>>

Min(a, b) == IF a < b THEN a ELSE b

\* ------------------------------------------------------- request values
\* a raw parameter: undefined, a string, or a native list of strings
Undef == [k |-> "undef", s |-> <<>>, a |-> <<>>]
Str(s) == [k |-> "str", s |-> s, a |-> <<>>]
Arr(a) == [k |-> "arr", s |-> <<>>, a |-> a]

\* req.query and req.body are objects: a key that is absent reads undefined
NoParams == <<>>
Get(params, key) == IF key \in DOMAIN params THEN params[key] ELSE Undef
Put(key, value) == IF value.k = "undef" THEN <<>> ELSE key :> value

\* a ?? b
Coalesce(a, b) == IF a.k # "undef" THEN a ELSE b

\* !value
Falsy(v) == v.k = "undef" \/ (v.k = "str" /\ v.s = NoStr)

\* arr[i] || "" for a 0-based index i of an array of strings
ItemOr(a, i) == IF i + 1 <= Len(a) THEN a[i + 1] ELSE NoStr

\* ------------------------------------------------- helpers of the handlers
\* splitList (flow variants): a delimited string is split, trimmed and
\* filtered of blank entries; a native list is returned as it is
splitList(value) ==
  IF Falsy(value) THEN <<>>
  ELSE IF value.k = "arr" THEN value.a
  ELSE FilterBoolean(Map(Split(value.s, SEP), Trim))

\* splitField (fixed-grid variant): split and trimmed, blanks kept
splitField(val) ==
  IF Falsy(val) THEN <<>>
  ELSE IF val.k = "arr" THEN val.a
  ELSE Map(Split(val.s, SEP), Trim)

\* the string branch of the dynamic-grid variant
splitComma(images) == FilterBoolean(Map(Split(images, COMMA), Trim))

\* minLength over a list of arrays; Infinity is modelled by -1
RECURSIVE minLengthFrom(_, _)
minLengthFrom(arrays, min) ==
  IF arrays = <<>> THEN min
  ELSE minLengthFrom(Tail(arrays),
                     IF min = -1 THEN Len(Head(arrays))
                     ELSE Min(min, Len(Head(arrays))))

minLength(arrays) == minLengthFrom(arrays, -1)

\* shot.scene || ""
SceneOf(shot) == shot.scene

\* RunEnd with the empty label read as "no scene", joining the run before it
RECURSIVE RunEnd_EmptyJoins(_, _, _)
RunEnd_EmptyJoins(shots, i, sceneName) ==
  IF i <= Len(shots)
     /\ (SceneOf(shots[i]) = sceneName \/ SceneOf(shots[i]) = NoStr)
  THEN RunEnd_EmptyJoins(shots, i + 1, sceneName)
  ELSE i

\* inner while loop of groupByScene (run-based): the first index at or
\* after i whose scene differs from sceneName, or Len(shots) + 1
RECURSIVE RunEnd(_, _, _)
RunEnd(shots, i, sceneName) ==
  IF i <= Len(shots) /\ SceneOf(shots[i]) = sceneName
  THEN RunEnd(shots, i + 1, sceneName)
  ELSE i

RECURSIVE groupRunsFrom(_, _, _)
groupRunsFrom(shots, i, groups) ==
  IF i <= Len(shots)
  THEN LET sceneName == SceneOf(shots[i])
           j == RunEnd(shots, i, sceneName)
       IN groupRunsFrom(shots, j,
            Append(groups, [sceneName |-> sceneName,
                            shots |-> SubSeq(shots, i, j - 1)]))
  ELSE groups

\* groupByScene of the flow variants (nested while loops over runs)
groupByScene(shots) == groupRunsFrom(shots, 1, <<>>)

\* groupByScene of the fixed-grid variant: one pass with an accumulator;
\* currentScene starts as null, which differs from every string
NullScene == [isNull |-> TRUE, v |-> NoStr]
AccInit == [groups |-> <<>>, currentScene |-> NullScene, currentGroup |-> <<>>]

AccFlush(acc) ==
  IF Len(acc.currentGroup) > 0
  THEN Append(acc.groups, [scene |-> acc.currentScene.v,
                           shots |-> acc.currentGroup])
  ELSE acc.groups

\* AccStep without the reset of currentGroup when the scene changes
AccStep_KeepsGroup(acc, shot) ==
  LET scene == SceneOf(shot)
      changed == acc.currentScene.isNull \/ scene # acc.currentScene.v
      a1 == IF changed
            THEN [groups |-> AccFlush(acc),
                  currentScene |-> [isNull |-> FALSE, v |-> scene],
                  currentGroup |-> acc.currentGroup]
            ELSE acc
  IN [a1 EXCEPT !.currentGroup = Append(a1.currentGroup, shot)]

AccStep(acc, shot) ==
  LET scene == SceneOf(shot)
      changed == acc.currentScene.isNull \/ scene # acc.currentScene.v
      a1 == IF changed
            THEN [groups |-> AccFlush(acc),
                  currentScene |-> [isNull |-> FALSE, v |-> scene],
                  currentGroup |-> <<>>]
            ELSE acc
  IN [a1 EXCEPT !.currentGroup = Append(a1.currentGroup, shot)]

RECURSIVE AccFold(_, _)
AccFold(acc, shots) ==
  IF shots = <<>> THEN acc ELSE AccFold(AccStep(acc, Head(shots)), Tail(shots))

\* groupBySceneAcc without the push of the last group after the loop
groupBySceneAcc_NoFinalPush(shots) == AccFold(AccInit, shots).groups

groupBySceneAcc(shots) == AccFlush(AccFold(AccInit, shots))

\* ---------------------------------------------------------------- state
VARIABLES
  variant,      \* [Reqs -> Variants]: the handler that serves the request
  req,          \* [Reqs -> [query, body]]: req.query and req.body
  pc,           \* [Reqs -> position of the handler]
  shots,        \* [Reqs -> the normalized shot list]
  sceneGroups,  \* [Reqs -> the scene groups]
  state,        \* [Reqs -> the layout cursor of the handler]
  loop,         \* [Reqs -> the loop variables of the handler]
  pages,        \* [Reqs -> number of pages added to the document]
  draws,        \* [Reqs -> the operations applied to the document, in order]
  filename,     \* [Reqs -> the generated file name]
  resp,         \* [Reqs -> the responses sent, in order]
  files,        \* the output directory: file name -> [owner, complete]
  now,          \* the last reading of the clock
  net,          \* [Reqs -> the answers the network can give the request]
  disk          \* the ways a write to the output directory can end

vars == <<variant, req, pc, shots, sceneGroups, state, loop, pages, draws,
          filename, resp, files, now, net, disk>>

\* ------------------------------------------------------------- geometry
Pt(n) == n * 6000
\* pdfkit's A4 page is 595.28 x 841.89 pt, all four margins 40 pt
PAGE_WIDTH == 59528 * 60
PAGE_HEIGHT == 84189 * 60
MARGIN == Pt(40)

COLS == 2
IMAGE_HEIGHT == Pt(135)
TEXT_BLOCK_HEIGHT == Pt(70)
ROW_SPACING == Pt(12)

\* computeLayout (row variant)
computeLayout ==
  LET usableHeight == PAGE_HEIGHT - MARGIN - MARGIN
      rowHeight == IMAGE_HEIGHT + TEXT_BLOCK_HEIGHT + ROW_SPACING
  IN [rowHeight |-> rowHeight,
      maxRows |-> usableHeight \div rowHeight,
      usableWidth |-> PAGE_WIDTH - MARGIN - MARGIN]

\* ------------------------------------------------- document operations
\* one operation on the document; page is doc.page at that moment
Op(kind, page, x, y, shot, text) ==
  [op |-> kind, page |-> page, x |-> x, y |-> y, shot |-> shot, text |-> text]

\* doc.addPage()
AddPage(r) ==
  /\ pages' = [pages EXCEPT ![r] = @ + 1]

Log(r, ops) == draws' = [draws EXCEPT ![r] = @ \o ops]

PageOp(p) == Op("page", p, 0, 0, 0, <<>>)

\* ------------------------------------------------------------ responses
NoFile == <<>>
NoDetails == [images |-> -1, scenes |-> -1, sizes |-> -1, descriptions |-> -1]
Success(f) == [status |-> 200, filename |-> f, pdfUrl |-> f, details |-> NoDetails]
ClientError(d) == [status |-> 400, filename |-> NoFile, pdfUrl |-> NoFile, details |-> d]
ServerError == [status |-> 500, filename |-> NoFile, pdfUrl |-> NoFile, details |-> NoDetails]

Send(r, m) == resp' = [resp EXCEPT ![r] = Append(@, m)]
Goto(r, l) == pc' = [pc EXCEPT ![r] = l]

\* the default name counted from 0
ShotName_ZeroBased(names, i) ==
  LET n == Trim(ItemOr(names, i))
  IN IF n # NoStr THEN n ELSE <<"S", "h", "o", "t", " ">> \o Digits(i)

\* ------------------------------------------- normalization, flow variants
\* name: (names[i] || "").trim() || `Shot ${i + 1}`, i 0-based
ShotName(names, i) ==
  LET n == Trim(ItemOr(names, i))
  IN IF n # NoStr THEN n ELSE <<"S", "h", "o", "t", " ">> \o Digits(i + 1)

\* the shots of the flow variants; k is the shot's 1-based position, kept
\* to tell equal shots apart in the record of operations
BuildShots(images, scenes, sizes, descriptions, names, usableCount) ==
  [k \in 1..usableCount |->
     [image |-> ItemOr(images, k - 1),
      scene |-> ItemOr(scenes, k - 1),
      size |-> ItemOr(sizes, k - 1),
      description |-> ItemOr(descriptions, k - 1),
      name |-> ShotName(names, k - 1),
      k |-> k]]

\* the usable count one short of the shortest list
UsableCount_OneShort(images, scenes, sizes, descriptions) ==
  minLength(<<images, scenes, sizes, descriptions>>) - 1

UsableCount(images, scenes, sizes, descriptions) ==
  minLength(<<images, scenes, sizes, descriptions>>)

\* the normalization with the names list counted among the required lists
NormalizeFlow_NamesCounted(rq) ==
  LET images == splitList(Coalesce(Get(rq.query, "images"), Get(rq.body, "images")))
      scenes == splitList(Coalesce(Get(rq.query, "scene"), Get(rq.body, "scene")))
      sizes == splitList(Coalesce(Get(rq.query, "size"), Get(rq.body, "size")))
      descriptions ==
        splitList(Coalesce(Get(rq.query, "description"), Get(rq.body, "description")))
      names == splitList(Coalesce(Get(rq.query, "name"), Get(rq.body, "name")))
      usableCount == minLength(<<images, scenes, sizes, descriptions, names>>)
  IN [usableCount |-> usableCount,
      details |-> [images |-> Len(images), scenes |-> Len(scenes),
                   sizes |-> Len(sizes), descriptions |-> Len(descriptions)],
      shots |-> IF usableCount > 0
                THEN BuildShots(images, scenes, sizes, descriptions, names,
                                usableCount)
                ELSE <<>>]

NormalizeFlow(rq) ==
  LET images == splitList(Coalesce(Get(rq.query, "images"), Get(rq.body, "images")))
      scenes == splitList(Coalesce(Get(rq.query, "scene"), Get(rq.body, "scene")))
      sizes == splitList(Coalesce(Get(rq.query, "size"), Get(rq.body, "size")))
      descriptions ==
        splitList(Coalesce(Get(rq.query, "description"), Get(rq.body, "description")))
      names == splitList(Coalesce(Get(rq.query, "name"), Get(rq.body, "name")))
      usableCount == UsableCount(images, scenes, sizes, descriptions)
  IN [usableCount |-> usableCount,
      details |-> [images |-> Len(images), scenes |-> Len(scenes),
                   sizes |-> Len(sizes), descriptions |-> Len(descriptions)],
      shots |-> IF usableCount > 0
                THEN BuildShots(images, scenes, sizes, descriptions, names,
                                usableCount)
                ELSE <<>>]

\* ------------------------------------------------------------ the network
\* what awaiting fetchFn(url) and the re-encoding can do: a success response
\* that decodes, a non-success response, or a thrown error
Outcomes == {"ok", "notok", "throw"}

\* what awaiting fs.promises.writeFile can do
DiskOutcomes == {"ok", "fail"}

\* the three caption lines of a flow cell: size, name, description
CaptionText(shot) == <<shot.size, shot.name, shot.description>>

\* sceneName || "Scene"
HeaderText(sceneName) ==
  IF sceneName # NoStr THEN sceneName ELSE <<"S", "c", "e", "n", "e">>

\* ===================================================== row variant (part_001)
\* startNewPage: the cursor of a fresh page
startNewPage == [rowIndex |-> 0, layout |-> computeLayout]

\* ensureRows that asks for room for one row, whatever is needed
ensureRows_OneRow(st, neededRows) ==
  IF st.rowIndex + 1 > st.layout.maxRows
  THEN [state |-> startNewPage, added |-> 1]
  ELSE [state |-> st, added |-> 0]

\* ensureRows: the cursor, and whether a page was added to get it
ensureRows(st, neededRows) ==
  IF st.rowIndex + neededRows > st.layout.maxRows
  THEN [state |-> startNewPage, added |-> 1]
  ELSE [state |-> st, added |-> 0]

NewPageOps(added, p) == IF added = 1 THEN <<PageOp(p)>> ELSE <<>>

\* the handler with the document and its first page opened before the
\* validation
Row_Receive_PageFirst(r) ==
  /\ pc[r] = "recv" /\ variant[r] = "row"
  /\ AddPage(r)
  /\ Log(r, <<PageOp(1)>>)
  /\ LET n == NormalizeFlow(req[r])
     IN IF n.usableCount <= 0
        THEN /\ Send(r, ClientError(n.details))
             /\ Goto(r, "done")
             /\ UNCHANGED <<shots, sceneGroups, state, loop>>
        ELSE /\ shots' = [shots EXCEPT ![r] = n.shots]
             /\ sceneGroups' = [sceneGroups EXCEPT ![r] = groupByScene(n.shots)]
             /\ state' = [state EXCEPT ![r] = startNewPage]
             /\ loop' = [loop EXCEPT ![r] = [gi |-> 1, shotIndex |-> 0,
                                             i |-> 0, col |-> 0, y |-> 0]]
             /\ Goto(r, "group")
             /\ UNCHANGED resp
  /\ UNCHANGED <<variant, req, filename, files, now, net, disk>>

\* lines 77-134 and 278: normalize, validate, group, open the first page
Row_Receive(r) ==
  /\ pc[r] = "recv" /\ variant[r] = "row"
  /\ LET n == NormalizeFlow(req[r])
     IN IF n.usableCount <= 0
        THEN /\ Send(r, ClientError(n.details))
             /\ Goto(r, "done")
             /\ UNCHANGED <<shots, sceneGroups, state, loop, pages, draws>>
        ELSE /\ shots' = [shots EXCEPT ![r] = n.shots]
             /\ sceneGroups' = [sceneGroups EXCEPT ![r] = groupByScene(n.shots)]
             /\ AddPage(r)
             /\ Log(r, <<PageOp(1)>>)
             /\ state' = [state EXCEPT ![r] = startNewPage]
             /\ loop' = [loop EXCEPT ![r] = [gi |-> 1, shotIndex |-> 0,
                                             i |-> 0, col |-> 0, y |-> 0]]
             /\ Goto(r, "group")
             /\ UNCHANGED resp
  /\ UNCHANGED <<variant, req, filename, files, now, net, disk>>

\* the header row placed by a cursor that the requests share, the first
\* request's
Row_Header_SharedCursor(r) ==
  /\ pc[r] = "group" /\ variant[r] = "row"
  /\ LET group == sceneGroups[r][loop[r].gi]
         shared == IF pc[1] \in {"idle", "recv", "done"} THEN state[r] ELSE state[1]
         e == ensureRows(shared, 2)
         p == pages[r] + e.added
         y == MARGIN + e.state.rowIndex * e.state.layout.rowHeight
     IN /\ pages' = [pages EXCEPT ![r] = p]
        /\ Log(r, NewPageOps(e.added, p)
                  \o <<Op("header", p, MARGIN, y, group.shots[1].k,
                          <<HeaderText(group.sceneName)>>)>>)
        /\ state' = [state EXCEPT ![r] =
                       [e.state EXCEPT !.rowIndex = @ + 1]]
        /\ loop' = [loop EXCEPT ![r].shotIndex = 0]
  /\ Goto(r, "row")
  /\ UNCHANGED <<variant, req, shots, sceneGroups, filename, resp, files, now, net, disk>>

\* lines 280-288: ensureRows(state, 2), then drawHeaderRow
Row_Header(r) ==
  /\ pc[r] = "group" /\ variant[r] = "row"
  /\ LET group == sceneGroups[r][loop[r].gi]
         e == ensureRows(state[r], 2)
         p == pages[r] + e.added
         y == MARGIN + e.state.rowIndex * e.state.layout.rowHeight
     IN /\ pages' = [pages EXCEPT ![r] = p]
        /\ Log(r, NewPageOps(e.added, p)
                  \o <<Op("header", p, MARGIN, y, group.shots[1].k,
                          <<HeaderText(group.sceneName)>>)>>)
        /\ state' = [state EXCEPT ![r] =
                       [e.state EXCEPT !.rowIndex = @ + 1]]
        /\ loop' = [loop EXCEPT ![r].shotIndex = 0]
  /\ Goto(r, "row")
  /\ UNCHANGED <<variant, req, shots, sceneGroups, filename, resp, files, now, net, disk>>

\* lines 290-295 and 206-215: ensureRows(state, 1), enter drawShotRow
Row_RowStart(r) ==
  /\ pc[r] = "row" /\ variant[r] = "row"
  /\ LET e == ensureRows(state[r], 1)
         p == pages[r] + e.added
     IN /\ pages' = [pages EXCEPT ![r] = p]
        /\ Log(r, NewPageOps(e.added, p))
        /\ state' = [state EXCEPT ![r] = e.state]
        /\ loop' = [loop EXCEPT ![r].i = loop[r].shotIndex,
                                ![r].col = 0,
                                ![r].y = MARGIN + e.state.rowIndex
                                                  * e.state.layout.rowHeight]
  /\ Goto(r, "cell")
  /\ UNCHANGED <<variant, req, shots, sceneGroups, filename, resp, files, now, net, disk>>

\* the x of a flow cell, the right column first
Row_CellX_RightFirst(col) ==
  MARGIN + (COLS - 1 - col) * (computeLayout.usableWidth \div COLS)

\* the x of a flow cell
Row_CellX(col) == MARGIN + col * (computeLayout.usableWidth \div COLS)

\* the cell finished with the caption drawn ahead of what the fetch gave
Row_FinishCell_CaptionFirst(r, before) ==
  LET l == loop[r]
      sceneShots == sceneGroups[r][l.gi].shots
      shot == sceneShots[l.i + 1]
      x == Row_CellX(l.col)
      caption == Op("caption", pages[r], x, l.y + IMAGE_HEIGHT + Pt(4),
                    shot.k, CaptionText(shot))
      i2 == l.i + 1
      col2 == l.col + 1
  IN /\ Log(r, <<caption>> \o before)
     /\ IF col2 < COLS /\ i2 < Len(sceneShots)
        THEN /\ loop' = [loop EXCEPT ![r].i = i2, ![r].col = col2]
             /\ Goto(r, "cell")
             /\ UNCHANGED state
        ELSE /\ state' = [state EXCEPT ![r].rowIndex = @ + 1]
             /\ IF i2 < Len(sceneShots)
                THEN /\ loop' = [loop EXCEPT ![r].shotIndex = i2]
                     /\ Goto(r, "row")
                ELSE IF l.gi < Len(sceneGroups[r])
                THEN /\ loop' = [loop EXCEPT ![r].shotIndex = i2,
                                             ![r].gi = @ + 1]
                     /\ Goto(r, "group")
                ELSE /\ loop' = [loop EXCEPT ![r].shotIndex = i2]
                     /\ Goto(r, "end")

\* lines 257-275 and 290-297: the caption, the loop steps and what follows
Row_FinishCell(r, before) ==
  LET l == loop[r]
      sceneShots == sceneGroups[r][l.gi].shots
      shot == sceneShots[l.i + 1]
      x == Row_CellX(l.col)
      caption == Op("caption", pages[r], x, l.y + IMAGE_HEIGHT + Pt(4),
                    shot.k, CaptionText(shot))
      i2 == l.i + 1
      col2 == l.col + 1
  IN /\ Log(r, before \o <<caption>>)
     /\ IF col2 < COLS /\ i2 < Len(sceneShots)
        THEN /\ loop' = [loop EXCEPT ![r].i = i2, ![r].col = col2]
             /\ Goto(r, "cell")
             /\ UNCHANGED state
        ELSE /\ state' = [state EXCEPT ![r].rowIndex = @ + 1]
             /\ IF i2 < Len(sceneShots)
                THEN /\ loop' = [loop EXCEPT ![r].shotIndex = i2]
                     /\ Goto(r, "row")
                ELSE IF l.gi < Len(sceneGroups[r])
                THEN /\ loop' = [loop EXCEPT ![r].shotIndex = i2,
                                             ![r].gi = @ + 1]
                     /\ Goto(r, "group")
                ELSE /\ loop' = [loop EXCEPT ![r].shotIndex = i2]
                     /\ Goto(r, "end")

\* lines 217-233: a cell up to its await; no fetch for an empty URL
Row_CellBegin(r) ==
  /\ pc[r] = "cell" /\ variant[r] = "row"
  /\ LET l == loop[r]
         shot == sceneGroups[r][l.gi].shots[l.i + 1]
     IN IF shot.image # NoStr
        THEN /\ Log(r, <<Op("fetch", pages[r], Row_CellX(l.col), l.y,
                            shot.k, <<>>)>>)
             /\ Goto(r, "fetch")
             /\ UNCHANGED <<state, loop>>
        ELSE Row_FinishCell(r, <<>>)
  /\ UNCHANGED <<variant, req, shots, sceneGroups, pages, filename, resp,
                 files, now, net, disk>>

\* the fetch settles, with no try around it: a thrown error ends the request
Row_CellResume_NoCatch(r) ==
  /\ pc[r] = "fetch" /\ variant[r] = "row"
  /\ \E o \in net[r] :
       LET l == loop[r]
           shot == sceneGroups[r][l.gi].shots[l.i + 1]
           image == Op("image", pages[r], Row_CellX(l.col), l.y, shot.k, <<>>)
       IN IF o = "throw"
          THEN /\ Send(r, ServerError)
               /\ Goto(r, "done")
               /\ UNCHANGED <<draws, state, loop>>
          ELSE /\ Row_FinishCell(r, IF o = "ok" THEN <<image>> ELSE <<>>)
               /\ UNCHANGED resp
  /\ UNCHANGED <<variant, req, shots, sceneGroups, pages, filename,
                 files, now, net, disk>>

\* lines 233-271: the fetch settles; the image is drawn on success only
Row_CellResume(r) ==
  /\ pc[r] = "fetch" /\ variant[r] = "row"
  /\ \E o \in net[r] :
       LET l == loop[r]
           shot == sceneGroups[r][l.gi].shots[l.i + 1]
           image == Op("image", pages[r], Row_CellX(l.col), l.y, shot.k, <<>>)
       IN Row_FinishCell(r, IF o = "ok" THEN <<image>> ELSE <<>>)
  /\ UNCHANGED <<variant, req, shots, sceneGroups, pages, filename, resp,
                 files, now, net, disk>>

\* ============================================ y variant (server.js 189-505)
Y_COLS == 2
Y_IMAGE_HEIGHT == Pt(135)
Y_TEXT_BLOCK_HEIGHT == Pt(70)
Y_ROW_SPACING == Pt(12)
HEADER_LINE_GAP == Pt(6)
HEADER_AFTER_GAP == Pt(10)
Y_HEADER_HEIGHT == Pt(22) + HEADER_LINE_GAP + Pt(1) + HEADER_AFTER_GAP
SHOT_ROW_HEIGHT == Y_IMAGE_HEIGHT + Y_TEXT_BLOCK_HEIGHT + Y_ROW_SPACING

\* pageMetrics
pageMetrics ==
  [left |-> MARGIN, top |-> MARGIN, right |-> PAGE_WIDTH - MARGIN,
   bottom |-> PAGE_HEIGHT - MARGIN,
   usableWidth |-> (PAGE_WIDTH - MARGIN) - MARGIN]

\* newPage returns the top of the fresh page
newPage == pageMetrics.top

\* ensureSpace that adds the page and keeps the y it had
ensureSpace_KeepsY(y, neededHeight) ==
  IF y + neededHeight > pageMetrics.bottom
  THEN [y |-> y, added |-> 1]
  ELSE [y |-> y, added |-> 0]

\* ensureSpace: the y cursor, and whether a page was added to get it
ensureSpace(y, neededHeight) ==
  IF y + neededHeight > pageMetrics.bottom
  THEN [y |-> newPage, added |-> 1]
  ELSE [y |-> y, added |-> 0]

\* drawSceneHeader returns the y below the header
Y_AfterHeader(y) == (y + Pt(22) + HEADER_LINE_GAP) + Pt(1) + HEADER_AFTER_GAP

\* lines 265-330 and 456
Y_Receive(r) ==
  /\ pc[r] = "recv" /\ variant[r] = "y"
  /\ LET n == NormalizeFlow(req[r])
     IN IF n.usableCount <= 0
        THEN /\ Send(r, ClientError(n.details))
             /\ Goto(r, "done")
             /\ UNCHANGED <<shots, sceneGroups, state, loop, pages, draws>>
        ELSE /\ shots' = [shots EXCEPT ![r] = n.shots]
             /\ sceneGroups' = [sceneGroups EXCEPT ![r] = groupByScene(n.shots)]
             /\ AddPage(r)
             /\ Log(r, <<PageOp(1)>>)
             /\ state' = [state EXCEPT ![r] = newPage]
             /\ loop' = [loop EXCEPT ![r] = [gi |-> 1, shotIndex |-> 0,
                                             i |-> 0, col |-> 0, y |-> 0]]
             /\ Goto(r, "group")
             /\ UNCHANGED resp
  /\ UNCHANGED <<variant, req, filename, files, now, net, disk>>

\* lines 458-466: ensureSpace for header and one row, then drawSceneHeader
Y_Header(r) ==
  /\ pc[r] = "group" /\ variant[r] = "y"
  /\ LET group == sceneGroups[r][loop[r].gi]
         e == ensureSpace(state[r], Y_HEADER_HEIGHT + SHOT_ROW_HEIGHT)
         p == pages[r] + e.added
     IN /\ pages' = [pages EXCEPT ![r] = p]
        /\ Log(r, NewPageOps(e.added, p)
                  \o <<Op("header", p, pageMetrics.left, e.y,
                          group.shots[1].k, <<HeaderText(group.sceneName)>>)>>)
        /\ state' = [state EXCEPT ![r] = Y_AfterHeader(e.y)]
        /\ loop' = [loop EXCEPT ![r].shotIndex = 0]
  /\ Goto(r, "row")
  /\ UNCHANGED <<variant, req, shots, sceneGroups, filename, resp, files, now, net, disk>>

\* lines 468-473 and 393-397: ensureSpace for one row, enter drawShotRow
Y_RowStart(r) ==
  /\ pc[r] = "row" /\ variant[r] = "y"
  /\ LET e == ensureSpace(state[r], SHOT_ROW_HEIGHT)
         p == pages[r] + e.added
     IN /\ pages' = [pages EXCEPT ![r] = p]
        /\ Log(r, NewPageOps(e.added, p))
        /\ state' = [state EXCEPT ![r] = e.y]
        /\ loop' = [loop EXCEPT ![r].i = loop[r].shotIndex,
                                ![r].col = 0,
                                ![r].y = e.y]
  /\ Goto(r, "cell")
  /\ UNCHANGED <<variant, req, shots, sceneGroups, filename, resp, files, now, net, disk>>

Y_CellX(col) == pageMetrics.left + col * (pageMetrics.usableWidth \div Y_COLS)

\* the cell finished by a drawShotRow that returns the index it was given
Y_FinishCell_ReturnsStart(r, before) ==
  LET l == loop[r]
      sceneShots == sceneGroups[r][l.gi].shots
      shot == sceneShots[l.i + 1]
      caption == Op("caption", pages[r], Y_CellX(l.col),
                    l.y + Y_IMAGE_HEIGHT + Pt(4), shot.k, CaptionText(shot))
      i2 == l.i + 1
      col2 == l.col + 1
  IN /\ Log(r, before \o <<caption>>)
     /\ IF col2 < Y_COLS /\ i2 < Len(sceneShots)
        THEN /\ loop' = [loop EXCEPT ![r].i = i2, ![r].col = col2]
             /\ Goto(r, "cell")
             /\ UNCHANGED state
        ELSE /\ state' = [state EXCEPT ![r] = @ + SHOT_ROW_HEIGHT]
             /\ UNCHANGED loop
             /\ Goto(r, "row")

\* lines 436-452 and 468-476
Y_FinishCell(r, before) ==
  LET l == loop[r]
      sceneShots == sceneGroups[r][l.gi].shots
      shot == sceneShots[l.i + 1]
      caption == Op("caption", pages[r], Y_CellX(l.col),
                    l.y + Y_IMAGE_HEIGHT + Pt(4), shot.k, CaptionText(shot))
      i2 == l.i + 1
      col2 == l.col + 1
  IN /\ Log(r, before \o <<caption>>)
     /\ IF col2 < Y_COLS /\ i2 < Len(sceneShots)
        THEN /\ loop' = [loop EXCEPT ![r].i = i2, ![r].col = col2]
             /\ Goto(r, "cell")
             /\ UNCHANGED state
        ELSE /\ state' = [state EXCEPT ![r] = @ + SHOT_ROW_HEIGHT]
             /\ IF i2 < Len(sceneShots)
                THEN /\ loop' = [loop EXCEPT ![r].shotIndex = i2]
                     /\ Goto(r, "row")
                ELSE IF l.gi < Len(sceneGroups[r])
                THEN /\ loop' = [loop EXCEPT ![r].shotIndex = i2,
                                             ![r].gi = @ + 1]
                     /\ Goto(r, "group")
                ELSE /\ loop' = [loop EXCEPT ![r].shotIndex = i2]
                     /\ Goto(r, "end")

\* lines 399-415
Y_CellBegin(r) ==
  /\ pc[r] = "cell" /\ variant[r] = "y"
  /\ LET l == loop[r]
         shot == sceneGroups[r][l.gi].shots[l.i + 1]
     IN IF shot.image # NoStr
        THEN /\ Log(r, <<Op("fetch", pages[r], Y_CellX(l.col), l.y,
                            shot.k, <<>>)>>)
             /\ Goto(r, "fetch")
             /\ UNCHANGED <<state, loop>>
        ELSE Y_FinishCell(r, <<>>)
  /\ UNCHANGED <<variant, req, shots, sceneGroups, pages, filename, resp,
                 files, now, net, disk>>

\* lines 415-449
Y_CellResume(r) ==
  /\ pc[r] = "fetch" /\ variant[r] = "y"
  /\ \E o \in net[r] :
       LET l == loop[r]
           shot == sceneGroups[r][l.gi].shots[l.i + 1]
           image == Op("image", pages[r], Y_CellX(l.col), l.y, shot.k, <<>>)
       IN Y_FinishCell(r, IF o = "ok" THEN <<image>> ELSE <<>>)
  /\ UNCHANGED <<variant, req, shots, sceneGroups, pages, filename, resp,
                 files, now, net, disk>>

\* ========================================== col variant (server.js 507-827)
Col_IMAGE_HEIGHT == Pt(130)
Col_TEXT_BLOCK_HEIGHT == Pt(60)
Col_ROW_SPACING == Pt(16)
ROW_HEIGHT == Col_IMAGE_HEIGHT + Col_TEXT_BLOCK_HEIGHT + Col_ROW_SPACING
HEADER_HEIGHT == Pt(30)

\* startNewPage of the col variant
Col_startNewPage == [currentY |-> MARGIN, column |-> 0]

bottomLimit == PAGE_HEIGHT - MARGIN

\* drawSceneHeader that leaves the column where it was
Col_drawSceneHeader_KeepsColumn(st) ==
  [currentY |-> st.currentY + HEADER_HEIGHT, column |-> st.column]

\* drawSceneHeader: the cursor after the header
Col_drawSceneHeader(st) ==
  [currentY |-> st.currentY + HEADER_HEIGHT, column |-> 0]

\* the header of the col variant, drawn at cursor st for the shot k
Col_HeaderOp(p, st, sceneName, k) ==
  Op("header", p, MARGIN, st.currentY, k, <<HeaderText(sceneName)>>)

\* lines 699-709: on a scene change, a page when header and one row do not
\* fit, then the header
Col_SceneChange(st, p, isNewScene, sceneName, k) ==
  IF isNewScene
  THEN LET need == st.currentY + HEADER_HEIGHT + ROW_HEIGHT > bottomLimit
           s1 == IF need THEN Col_startNewPage ELSE st
           p1 == IF need THEN p + 1 ELSE p
       IN [state |-> Col_drawSceneHeader(s1), pages |-> p1,
           ops |-> NewPageOps(IF need THEN 1 ELSE 0, p1)
                   \o <<Col_HeaderOp(p1, s1, sceneName, k)>>]
  ELSE [state |-> st, pages |-> p, ops |-> <<>>]

\* lines 680-683 and 717-724: at a row start that does not fit, a page and
\* the header of a named scene again
Col_Overflow(st, p, sceneName, k) ==
  IF st.column = 0 /\ st.currentY + ROW_HEIGHT > bottomLimit
  THEN LET s1 == Col_startNewPage
       IN IF sceneName # NoStr
          THEN [state |-> Col_drawSceneHeader(s1), pages |-> p + 1,
                ops |-> <<PageOp(p + 1),
                          Col_HeaderOp(p + 1, s1, sceneName, k)>>]
          ELSE [state |-> s1, pages |-> p + 1, ops |-> <<PageOp(p + 1)>>]
  ELSE [state |-> st, pages |-> p, ops |-> <<>>]

\* lines 692-728: where shot i goes, and what is drawn before it
Col_Place(r) ==
  LET l == loop[r]
      shot == shots[r][l.i + 1]
      sceneName == SceneOf(shot)
      isNewScene == l.currentScene.isNull \/ sceneName # l.currentScene.v
      a == Col_SceneChange(state[r], pages[r], isNewScene, sceneName, shot.k)
      b == Col_Overflow(a.state, a.pages, sceneName, shot.k)
      cellWidth == ((PAGE_WIDTH - MARGIN) - MARGIN) \div 2
  IN [state |-> b.state, pages |-> b.pages, ops |-> a.ops \o b.ops,
      x |-> MARGIN + b.state.column * cellWidth, y |-> b.state.currentY,
      shot |-> shot,
      currentScene |-> [isNull |-> FALSE, v |-> sceneName]]

\* lines 791-797: advance column / row
Col_Advance(st) ==
  IF st.column = 0 THEN [st EXCEPT !.column = 1]
  ELSE [currentY |-> st.currentY + ROW_HEIGHT, column |-> 0]

\* lines 564-636 and 686-690
Col_Receive(r) ==
  /\ pc[r] = "recv" /\ variant[r] = "col"
  /\ LET n == NormalizeFlow(req[r])
     IN IF n.usableCount <= 0
        THEN /\ Send(r, ClientError(n.details))
             /\ Goto(r, "done")
             /\ UNCHANGED <<shots, state, loop, pages, draws>>
        ELSE /\ shots' = [shots EXCEPT ![r] = n.shots]
             /\ AddPage(r)
             /\ Log(r, <<PageOp(1)>>)
             /\ state' = [state EXCEPT ![r] = Col_startNewPage]
             /\ loop' = [loop EXCEPT ![r] = [i |-> 0, x |-> 0, y |-> 0,
                                             currentScene |-> NullScene]]
             /\ Goto(r, "cell")
             /\ UNCHANGED resp
  /\ UNCHANGED <<variant, req, sceneGroups, filename, files, now, net, disk>>

\* lines 767-798: the caption, the cursor advance, the next shot
Col_FinishShot(r, st, l, before) ==
  LET shot == shots[r][l.i + 1]
      caption == Op("caption", pages'[r], l.x, l.y + Col_IMAGE_HEIGHT + Pt(4),
                    shot.k, CaptionText(shot))
  IN /\ Log(r, before \o <<caption>>)
     /\ state' = [state EXCEPT ![r] = Col_Advance(st)]
     /\ loop' = [loop EXCEPT ![r] = [l EXCEPT !.i = @ + 1]]
     /\ Goto(r, IF l.i + 1 < Len(shots[r]) THEN "cell" ELSE "end")

\* lines 692-743: one shot up to its await; no fetch for an empty URL
Col_ShotBegin(r) ==
  /\ pc[r] = "cell" /\ variant[r] = "col"
  /\ LET pl == Col_Place(r)
         l == [loop[r] EXCEPT !.x = pl.x, !.y = pl.y,
                              !.currentScene = pl.currentScene]
     IN /\ pages' = [pages EXCEPT ![r] = pl.pages]
        /\ IF pl.shot.image # NoStr
           THEN /\ Log(r, pl.ops \o <<Op("fetch", pl.pages, pl.x, pl.y,
                                        pl.shot.k, <<>>)>>)
                /\ state' = [state EXCEPT ![r] = pl.state]
                /\ loop' = [loop EXCEPT ![r] = l]
                /\ Goto(r, "fetch")
           ELSE Col_FinishShot(r, pl.state, l, pl.ops)
  /\ UNCHANGED <<variant, req, shots, sceneGroups, filename, resp, files, now, net, disk>>

\* lines 743-798: the fetch settles
Col_ShotResume(r) ==
  /\ pc[r] = "fetch" /\ variant[r] = "col"
  /\ pages' = pages
  /\ \E o \in net[r] :
       LET l == loop[r]
           image == Op("image", pages[r], l.x, l.y, shots[r][l.i + 1].k, <<>>)
       IN Col_FinishShot(r, state[r], l, IF o = "ok" THEN <<image>> ELSE <<>>)
  /\ UNCHANGED <<variant, req, shots, sceneGroups, filename, resp, files, now, net, disk>>

\* ================================== fixed-grid variant (unnamed/part_000)
GRID_COLS == 2
GRID_ROWS == 4
SHOTS_PER_PAGE == GRID_COLS * GRID_ROWS

SHOT_LIST == <<"S", "h", "o", "t", " ", "L", "i", "s", "t">>

\* a ?? b ?? default, for a text parameter
TextOr(a, b, default) ==
  IF a.k # "undef" THEN a.s ELSE IF b.k # "undef" THEN b.s ELSE default

\* the title and, when it is not empty, the description of the intro page
IntroOp(title, description) ==
  Op("intro", 1, MARGIN, MARGIN, 0,
     IF description # NoStr THEN <<title, description>> ELSE <<title>>)

\* lines 86-105: the shots of the fixed-grid variant, one per image
Grid_Shots(rq) ==
  LET imageList == splitField(Coalesce(Get(rq.body, "images"), Get(rq.query, "images")))
      sizeList == splitField(Coalesce(Get(rq.body, "sizes"), Get(rq.query, "sizes")))
      descList ==
        splitField(Coalesce(Get(rq.body, "descriptions"), Get(rq.query, "descriptions")))
      sceneList == splitField(Coalesce(Get(rq.body, "scenes"), Get(rq.query, "scenes")))
  IN [k \in 1..Len(imageList) |->
        [url |-> imageList[k], size |-> ItemOr(sizeList, k - 1),
         desc |-> ItemOr(descList, k - 1), scene |-> ItemOr(sceneList, k - 1),
         k |-> k]]

\* lines 76-131
Grid_Receive(r) ==
  /\ pc[r] = "recv" /\ variant[r] = "grid"
  /\ LET sh == Grid_Shots(req[r])
         title == TextOr(Get(req[r].body, "title"), Get(req[r].query, "title"), SHOT_LIST)
         description ==
           TextOr(Get(req[r].body, "description"), Get(req[r].query, "description"), NoStr)
     IN IF Len(sh) = 0
        THEN /\ Send(r, ClientError(NoDetails))
             /\ Goto(r, "done")
             /\ UNCHANGED <<shots, sceneGroups, loop, pages, draws>>
        ELSE /\ shots' = [shots EXCEPT ![r] = sh]
             /\ sceneGroups' = [sceneGroups EXCEPT ![r] = groupBySceneAcc(sh)]
             /\ AddPage(r)
             /\ Log(r, <<PageOp(1), IntroOp(title, description)>>)
             /\ loop' = [loop EXCEPT ![r] = [gi |-> 1, i |-> 0, x |-> 0, y |-> 0]]
             /\ Goto(r, "cell")
             /\ UNCHANGED resp
  /\ UNCHANGED <<variant, req, state, filename, files, now, net, disk>>

\* headerSpace
headerSpace(sceneLabel) == IF sceneLabel # NoStr THEN Pt(30) ELSE 0

\* lines 156-169: the cell of the shot at indexOnPage
Grid_Cell(sceneLabel, indexOnPage) ==
  LET usableWidth == PAGE_WIDTH - MARGIN - MARGIN
      usableHeight == PAGE_HEIGHT - MARGIN - MARGIN - headerSpace(sceneLabel)
      cellWidth == usableWidth \div GRID_COLS
      cellHeight == usableHeight \div GRID_ROWS
      row == indexOnPage \div GRID_COLS
      col == indexOnPage % GRID_COLS
  IN [x |-> MARGIN + col * cellWidth,
      y |-> MARGIN + headerSpace(sceneLabel) + row * cellHeight,
      cellWidth |-> cellWidth, cellHeight |-> cellHeight,
      imageBoxHeight |-> cellHeight - Pt(30)]

\* the page added, and the scene label drawn on the page that was current
\* before it
Grid_PageOps_LabelOnOldPage(p, sceneLabel, indexOnPage, k) ==
  IF indexOnPage = 0
  THEN <<PageOp(p + 1)>>
       \o (IF sceneLabel # NoStr
           THEN <<Op("header", p, MARGIN, MARGIN, k, <<sceneLabel>>)>>
           ELSE <<>>)
  ELSE <<>>

\* lines 143-150: at the first cell of a page, the page and the scene label
Grid_PageOps(p, sceneLabel, indexOnPage, k) ==
  IF indexOnPage = 0
  THEN <<PageOp(p + 1)>>
       \o (IF sceneLabel # NoStr
           THEN <<Op("header", p + 1, MARGIN, MARGIN, k, <<sceneLabel>>)>>
           ELSE <<>>)
  ELSE <<>>

\* lines 140-179: a cell up to its await
Grid_CellBegin(r) ==
  /\ pc[r] = "cell" /\ variant[r] = "grid"
  /\ LET l == loop[r]
         group == sceneGroups[r][l.gi]
         shot == group.shots[l.i + 1]
         indexOnPage == l.i % SHOTS_PER_PAGE
         p == IF indexOnPage = 0 THEN pages[r] + 1 ELSE pages[r]
         c == Grid_Cell(group.scene, indexOnPage)
     IN /\ pages' = [pages EXCEPT ![r] = p]
        /\ Log(r, Grid_PageOps(pages[r], group.scene, indexOnPage, shot.k)
                  \o <<Op("fetch", p, c.x, c.y, shot.k, <<>>)>>)
        /\ loop' = [loop EXCEPT ![r].x = c.x, ![r].y = c.y]
  /\ Goto(r, "fetch")
  /\ UNCHANGED <<variant, req, shots, sceneGroups, state, filename, resp,
                 files, now, net, disk>>

\* [sizeText, descText].filter(Boolean).join(" - ")
Grid_Caption(shot) ==
  Join(FilterBoolean(<<Trim(shot.size), Trim(shot.desc)>>), <<" ", "-", " ">>)

\* lines 178-204: the fetch settles; the caption when it is not empty
Grid_CellResume(r) ==
  /\ pc[r] = "fetch" /\ variant[r] = "grid"
  /\ \E o \in net[r] :
       LET l == loop[r]
           group == sceneGroups[r][l.gi]
           shot == group.shots[l.i + 1]
           c == Grid_Cell(group.scene, l.i % SHOTS_PER_PAGE)
           image == Op("image", pages[r], l.x + Pt(5), l.y + Pt(5), shot.k, <<>>)
           caption == Op("caption", pages[r], l.x + Pt(5),
                         l.y + c.imageBoxHeight, shot.k, <<Grid_Caption(shot)>>)
       IN /\ Log(r, (IF o = "ok" THEN <<image>> ELSE <<>>)
                    \o (IF Grid_Caption(shot) # NoStr THEN <<caption>> ELSE <<>>))
          /\ IF l.i + 1 < Len(group.shots)
             THEN /\ loop' = [loop EXCEPT ![r].i = @ + 1]
                  /\ Goto(r, "cell")
             ELSE IF l.gi < Len(sceneGroups[r])
             THEN /\ loop' = [loop EXCEPT ![r].i = 0, ![r].gi = @ + 1]
                  /\ Goto(r, "cell")
             ELSE /\ loop' = [loop EXCEPT ![r].i = @ + 1]
                  /\ Goto(r, "end")
  /\ UNCHANGED <<variant, req, shots, sceneGroups, state, pages, filename,
                 resp, files, now, net, disk>>

\* ====================================== dynamic grid (server.js 1-187)
\* chooseGrid with the 2 x 4 grid left out
chooseGrid_NoTwoByFour(imagesLeft) ==
  IF imagesLeft = 1 THEN [rows |-> 1, cols |-> 1]
  ELSE IF imagesLeft = 2 THEN [rows |-> 1, cols |-> 2]
  ELSE IF imagesLeft <= 3 THEN [rows |-> 1, cols |-> imagesLeft]
  ELSE IF imagesLeft <= 4 THEN [rows |-> 2, cols |-> 2]
  ELSE IF imagesLeft <= 8 THEN [rows |-> 2, cols |-> 3]
  ELSE IF imagesLeft <= 9 THEN [rows |-> 3, cols |-> 3]
  ELSE IF imagesLeft <= 10 THEN [rows |-> 2, cols |-> 5]
  ELSE IF imagesLeft <= 12 THEN [rows |-> 3, cols |-> 4]
  ELSE [rows |-> 2, cols |-> 5]

\* chooseGrid
chooseGrid(imagesLeft) ==
  IF imagesLeft = 1 THEN [rows |-> 1, cols |-> 1]
  ELSE IF imagesLeft = 2 THEN [rows |-> 1, cols |-> 2]
  ELSE IF imagesLeft <= 3 THEN [rows |-> 1, cols |-> imagesLeft]
  ELSE IF imagesLeft <= 4 THEN [rows |-> 2, cols |-> 2]
  ELSE IF imagesLeft <= 6 THEN [rows |-> 2, cols |-> 3]
  ELSE IF imagesLeft <= 8 THEN [rows |-> 2, cols |-> 4]
  ELSE IF imagesLeft <= 9 THEN [rows |-> 3, cols |-> 3]
  ELSE IF imagesLeft <= 10 THEN [rows |-> 2, cols |-> 5]
  ELSE IF imagesLeft <= 12 THEN [rows |-> 3, cols |-> 4]
  ELSE [rows |-> 2, cols |-> 5]

\* lines 59-67: the images, a comma-separated string split and filtered
Dyn_Images(rq) ==
  LET images == Coalesce(Get(rq.body, "images"), Get(rq.query, "images"))
  IN IF images.k = "str" THEN Arr(splitComma(images.s)) ELSE images

\* lines 57-101; the image URLs are kept in shots
Dyn_Receive(r) ==
  /\ pc[r] = "recv" /\ variant[r] = "dyn"
  /\ LET images == Dyn_Images(req[r])
         title == TextOr(Get(req[r].body, "title"), Get(req[r].query, "title"), NoStr)
         description ==
           TextOr(Get(req[r].body, "description"), Get(req[r].query, "description"), NoStr)
     IN IF images.k # "arr" \/ Len(images.a) = 0
        THEN /\ Send(r, ClientError(NoDetails))
             /\ Goto(r, "done")
             /\ UNCHANGED <<shots, loop, pages, draws>>
        ELSE /\ shots' = [shots EXCEPT ![r] = images.a]
             /\ AddPage(r)
             /\ Log(r, <<PageOp(1),
                         IntroOp(IF title # NoStr THEN title ELSE SHOT_LIST,
                                 description)>>)
             /\ loop' = [loop EXCEPT ![r] =
                           [remaining |-> Len(images.a), index |-> 0, i |-> 0,
                            rows |-> 0, cols |-> 0]]
             /\ Goto(r, "page")
             /\ UNCHANGED resp
  /\ UNCHANGED <<variant, req, sceneGroups, state, filename, files, now, net, disk>>

\* lines 103-116: the grid of the page, and the page
Dyn_PageStart(r) ==
  /\ pc[r] = "page" /\ variant[r] = "dyn"
  /\ LET g == chooseGrid(loop[r].remaining)
     IN loop' = [loop EXCEPT ![r].rows = g.rows, ![r].cols = g.cols, ![r].i = 0]
  /\ AddPage(r)
  /\ Log(r, <<PageOp(pages[r] + 1)>>)
  /\ Goto(r, "cell")
  /\ UNCHANGED <<variant, req, shots, sceneGroups, state, filename, resp,
                 files, now, net, disk>>

\* lines 134-138: the slot of the i-th image of a page
Dyn_Slot(l) ==
  LET cellWidth == (PAGE_WIDTH - MARGIN - MARGIN) \div l.cols
      cellHeight == (PAGE_HEIGHT - MARGIN - MARGIN) \div l.rows
  IN [x |-> MARGIN + (l.i % l.cols) * cellWidth,
      y |-> MARGIN + (l.i \div l.cols) * cellHeight]

\* lines 119-123: an image up to its await
Dyn_CellBegin(r) ==
  /\ pc[r] = "cell" /\ variant[r] = "dyn"
  /\ Log(r, <<Op("fetch", pages[r], Dyn_Slot(loop[r]).x, Dyn_Slot(loop[r]).y,
                 loop[r].index + 1, <<>>)>>)
  /\ Goto(r, "fetch")
  /\ UNCHANGED <<variant, req, shots, sceneGroups, state, loop, pages,
                 filename, resp, files, now, net, disk>>

\* lines 123-151: the fetch settles; the loop steps
Dyn_CellResume(r) ==
  /\ pc[r] = "fetch" /\ variant[r] = "dyn"
  /\ \E o \in net[r] :
       LET l == loop[r]
           perPage == l.rows * l.cols
           image == Op("image", pages[r], Dyn_Slot(l).x, Dyn_Slot(l).y,
                       l.index + 1, <<>>)
       IN /\ Log(r, IF o = "ok" THEN <<image>> ELSE <<>>)
          /\ IF l.i + 1 < perPage /\ l.index + 1 < Len(shots[r])
             THEN /\ loop' = [loop EXCEPT ![r].i = @ + 1, ![r].index = @ + 1]
                  /\ Goto(r, "cell")
             ELSE /\ loop' = [loop EXCEPT ![r].i = @ + 1, ![r].index = @ + 1,
                                          ![r].remaining = @ - perPage]
                  /\ Goto(r, IF l.remaining - perPage > 0 THEN "page" ELSE "end")
  /\ UNCHANGED <<variant, req, shots, sceneGroups, state, pages, filename,
                 resp, files, now, net, disk>>

\* ================================================ finalize, save, respond
\* `shotlist-${Date.now()}.pdf`
FileName(ms) ==
  <<"s", "h", "o", "t", "l", "i", "s", "t", "-">> \o Digits(ms)
    \o <<".", "p", "d", "f">>

\* the buffer taken without doc.end()
Finish_NoEnd(r) ==
  /\ pc[r] = "end"
  /\ Goto(r, "save")
  /\ UNCHANGED <<variant, req, shots, sceneGroups, state, loop, pages, draws,
                 filename, resp, files, now, net, disk>>

\* doc.end(), then await done
Finish(r) ==
  /\ pc[r] = "end"
  /\ Log(r, <<Op("end", pages[r], 0, 0, 0, <<>>)>>)
  /\ Goto(r, "save")
  /\ UNCHANGED <<variant, req, shots, sceneGroups, state, loop, pages,
                 filename, resp, files, now, net, disk>>

\* the buffer is ready: the name is taken from the clock, writeFile starts
Save(r) ==
  /\ pc[r] = "save"
  /\ \E ms \in now..MaxTime :
       /\ now' = ms
       /\ filename' = [filename EXCEPT ![r] = FileName(ms)]
  /\ Goto(r, "write")
  /\ UNCHANGED <<variant, req, shots, sceneGroups, state, loop, pages, draws,
                 resp, files, net, disk>>

\* writeFile started and not awaited: the response leaves at once
WriteOpen_NoAwait(r) ==
  /\ pc[r] = "write"
  /\ files' = [f \in DOMAIN files \cup {filename[r]} |->
                 IF f = filename[r]
                 THEN [owner |-> r, complete |-> FALSE,
                       overwritten |-> f \in DOMAIN files]
                 ELSE files[f]]
  /\ Send(r, Success(filename[r]))
  /\ Goto(r, "done")
  /\ UNCHANGED <<variant, req, shots, sceneGroups, state, loop, pages, draws,
                 filename, now, net, disk>>

\* writeFile opens the file, which creates or truncates it, or fails to
WriteOpen(r) ==
  /\ pc[r] = "write"
  /\ \/ /\ "ok" \in disk
        /\ files' = [f \in DOMAIN files \cup {filename[r]} |->
                       IF f = filename[r]
                       THEN [owner |-> r, complete |-> FALSE,
                             overwritten |-> f \in DOMAIN files]
                       ELSE files[f]]
        /\ Goto(r, "writing")
        /\ UNCHANGED resp
     \/ /\ "fail" \in disk
        /\ Send(r, ServerError)
        /\ Goto(r, "done")
        /\ UNCHANGED files
  /\ UNCHANGED <<variant, req, shots, sceneGroups, state, loop, pages, draws,
                 filename, now, net, disk>>

\* writeFile settles: res.json({filename, pdfUrl}) after a complete write,
\* the catch block's 500 after a failed one
WriteDone(r) ==
  /\ pc[r] = "writing"
  /\ \/ /\ "ok" \in disk
        /\ files' = [files EXCEPT ![filename[r]].complete =
                                     (files[filename[r]].owner = r)]
        /\ Send(r, Success(filename[r]))
     \/ /\ "fail" \in disk
        /\ Send(r, ServerError)
        /\ UNCHANGED files
  /\ Goto(r, "done")
  /\ UNCHANGED <<variant, req, shots, sceneGroups, state, loop, pages, draws,
                 filename, now, net, disk>>

\* ============================================================== requests
URL == <<"u">>
Labels == {NoStr, <<"A">>}

SeqsUpTo(S, n) == UNION {[1..m -> S] : m \in 0..n}
ListsOf(S, n) == {Undef} \cup {Arr(a) : a \in SeqsUpTo(S, n)}

Request(query, body) == [query |-> query, body |-> body]

\* a request of the flow variants, its fields in the query string
FlowRequest(images, scene, size, description, name) ==
  Request(Put("images", images) @@ Put("scene", scene) @@ Put("size", size)
            @@ Put("description", description) @@ Put("name", name),
          NoParams)

FlowRequests(n) ==
  {FlowRequest(im, sc, sz, de, Undef) :
     im \in ListsOf({NoStr, URL}, n), sc \in ListsOf(Labels, n),
     sz \in ListsOf({<<"W">>}, n), de \in ListsOf({<<"d">>}, n)}

InitRest ==
  /\ shots = [r \in Reqs |-> <<>>]
  /\ sceneGroups = [r \in Reqs |-> <<>>]
  /\ state = [r \in Reqs |-> 0]
  /\ loop = [r \in Reqs |-> 0]
  /\ pages = [r \in Reqs |-> 0]
  /\ draws = [r \in Reqs |-> <<>>]
  /\ filename = [r \in Reqs |-> NoFile]
  /\ resp = [r \in Reqs |-> <<>>]
  /\ files = <<>>

\* a request of the fixed-grid variant, its fields in the JSON body
GridRequest(images, scenes, sizes, descriptions) ==
  Request(NoParams,
          Put("images", images) @@ Put("scenes", scenes) @@ Put("sizes", sizes)
            @@ Put("descriptions", descriptions))

GridRequests(n) ==
  {GridRequest(im, sc, sz, de) :
     im \in ListsOf({NoStr, URL}, n), sc \in ListsOf(Labels, n),
     sz \in ListsOf({<<"W">>}, n), de \in ListsOf({<<"d">>}, n)}

\* a request of the dynamic-grid variant
DynRequest(images) == Request(NoParams, Put("images", images))

DynRequests(n) ==
  {DynRequest(im) : im \in ListsOf({URL}, n)}
  \cup {DynRequest(Str(Join(a, COMMA))) : a \in SeqsUpTo({NoStr, URL}, n)}

RequestsOf(v, n) ==
  IF v \in Flow THEN FlowRequests(n)
  ELSE IF v = "grid" THEN GridRequests(n)
  ELSE DynRequests(n)

NoRequest == Request(NoParams, NoParams)

\* one request, of any variant
Init ==
  /\ \E v \in Variants :
       /\ variant = [r \in Reqs |-> IF r = 1 THEN v ELSE "row"]
       /\ \E q \in RequestsOf(v, MaxShots) :
            req = [r \in Reqs |-> IF r = 1 THEN q ELSE NoRequest]
  /\ pc = [r \in Reqs |-> IF r = 1 THEN "recv" ELSE "idle"]
  /\ net = [r \in Reqs |-> Outcomes]
  /\ disk = DiskOutcomes
  /\ now = 0
  /\ InitRest

Next ==
  \E r \in Reqs :
    \/ Row_Receive(r) \/ Row_Header(r) \/ Row_RowStart(r)
    \/ Row_CellBegin(r) \/ Row_CellResume(r)
    \/ Y_Receive(r) \/ Y_Header(r) \/ Y_RowStart(r)
    \/ Y_CellBegin(r) \/ Y_CellResume(r)
    \/ Col_Receive(r) \/ Col_ShotBegin(r) \/ Col_ShotResume(r)
    \/ Grid_Receive(r) \/ Grid_CellBegin(r) \/ Grid_CellResume(r)
    \/ Dyn_Receive(r) \/ Dyn_PageStart(r) \/ Dyn_CellBegin(r)
    \/ Dyn_CellResume(r)
    \/ Finish(r) \/ Save(r) \/ WriteOpen(r) \/ WriteDone(r)

Spec == Init /\ [][Next]_vars

\* ------------------------------------------------ layout specification
\* a k-element list of the same entry
Repeat(x, k) == [i \in 1..k |-> x]

\* requests whose four lists are aligned: k shots, every scene sequence
LayoutRequests(v, k) ==
  IF v \in Flow
  THEN {FlowRequest(Arr(Repeat(URL, k)), Arr(sc), Arr(Repeat(<<"W">>, k)),
                    Arr(Repeat(<<"d">>, k)), Arr(Repeat(<<"n">>, k))) :
          sc \in [1..k -> Labels]}
  ELSE IF v = "grid"
  THEN {GridRequest(Arr(Repeat(URL, k)), Arr(sc), Arr(Repeat(<<"W">>, k)),
                    Arr(Repeat(<<"d">>, k))) : sc \in [1..k -> Labels]}
  ELSE {DynRequest(Arr(Repeat(URL, k)))}

\* one request with up to MaxLayoutShots shots; the network answers every
\* fetch of the run the same way, the disk is healthy and the clock stands
\* at its last reading
InitLayout ==
  /\ \E v \in Variants :
       /\ variant = [r \in Reqs |-> IF r = 1 THEN v ELSE "row"]
       /\ \E k \in 1..MaxLayoutShots :
            \E q \in LayoutRequests(v, k) :
              req = [r \in Reqs |-> IF r = 1 THEN q ELSE NoRequest]
  /\ pc = [r \in Reqs |-> IF r = 1 THEN "recv" ELSE "idle"]
  /\ \E o \in {"ok", "notok"} : net = [r \in Reqs |-> {o}]
  /\ disk = {"ok"}
  /\ now = MaxTime
  /\ InitRest

SpecLayout == InitLayout /\ [][Next]_vars


\* --------------------------------------------- two concurrent requests
\* two requests of one variant carrying the same fields, handled at the
\* same time; every fetch of request 1 succeeds, those of request 2 may fail
InitConc ==
  /\ \E v \in Variants :
       /\ variant = [r \in Reqs |-> v]
       /\ \E k \in 1..ConcShots :
            \E q \in LayoutRequests(v, k) : req = [r \in Reqs |-> q]
  /\ pc = [r \in Reqs |-> "recv"]
  /\ net = [r \in Reqs |-> IF r = 1 THEN {"ok"} ELSE Outcomes]
  /\ disk = DiskOutcomes
  /\ now = 0
  /\ InitRest

SpecConc == InitConc /\ [][Next]_vars


\* ------------------------------------------------ field specification
LabelB == <<"B">>

\* the per-shot fields of a flow request, as an object
FlowFields(images, scene, size, description, name) ==
  Put("images", images) @@ Put("scene", scene) @@ Put("size", size)
    @@ Put("description", description) @@ Put("name", name)

\* the per-shot fields of a fixed-grid request, and a title
GridFields(images, scenes, sizes, descriptions, title) ==
  Put("images", images) @@ Put("scenes", scenes) @@ Put("sizes", sizes)
    @@ Put("descriptions", descriptions) @@ Put("title", title)

\* name entries: blank, blank once trimmed, and a name within spaces
NameEntries == {NoStr, <<" ">>, <<" ", "m">>}

\* flow requests with k scenes, sizes and descriptions, up to k images and
\* every list of up to k + 1 name entries, native or joined by the delimiter
NamedRequests(k) ==
  {Request(FlowFields(Arr(Repeat(URL, j)), Arr(Repeat(<<"A">>, k)),
                      Arr(Repeat(<<"W">>, k)), Arr(Repeat(<<"d">>, k)), nm),
           NoParams) :
     j \in 0..k,
     nm \in {Undef} \cup {Arr(a) : a \in SeqsUpTo(NameEntries, k + 1)}
              \cup {Str(Join(a, SEP)) : a \in SeqsUpTo(NameEntries, k + 1)}}

\* requests whose four fields are strings of m entries joined by the
\* delimiter, some entries of scene and size blank
DelimitedRequests(v, k) ==
  UNION {
    {LET im == Str(Join(Repeat(URL, m), SEP))
         de == Str(Join(Repeat(<<"d">>, m), SEP))
     IN IF v = "grid"
        THEN Request(NoParams,
                     GridFields(im, Str(Join(sc, SEP)), Str(Join(sz, SEP)),
                                de, Undef))
        ELSE Request(FlowFields(im, Str(Join(sc, SEP)), Str(Join(sz, SEP)),
                                de, Undef),
                     NoParams) :
       sc \in [1..m -> {NoStr, <<"A">>}],
       sz \in [1..m -> {<<" ">>, <<"W">>}]} : m \in 1..k}

\* requests that carry fields in the query string, in the body, or in both:
\* one shot of scene A in the query, two shots of scene B in the body
MixedRequests(v) ==
  IF v = "dyn"
  THEN {Request(Put("images", qi) @@ Put("title", qt),
                Put("images", bi) @@ Put("title", bt)) :
          qi \in {Undef, Arr(<<URL>>)}, bi \in {Undef, Arr(<<URL, URL>>)},
          qt \in {Undef, Str(<<"Q">>)}, bt \in {Undef, Str(<<"T">>)}}
  ELSE IF v = "grid"
  THEN {Request(GridFields(qi, qs, Undef, Undef, qt),
                GridFields(bi, bs, Arr(<<<<"W">>, <<"W">>>>),
                           Arr(<<<<"d">>, <<"d">>>>), bt)) :
          qi \in {Undef, Arr(<<URL>>)}, bi \in {Undef, Arr(<<URL, URL>>)},
          qs \in {Undef, Arr(<<<<"A">>>>)},
          bs \in {Undef, Arr(<<LabelB, LabelB>>)},
          qt \in {Undef, Str(<<"Q">>)}, bt \in {Undef, Str(<<"T">>)}}
  ELSE {Request(FlowFields(qi, qs, Undef, Undef, Undef),
                FlowFields(bi, bs, Arr(<<<<"W">>, <<"W">>>>),
                           Arr(<<<<"d">>, <<"d">>>>), Undef)) :
          qi \in {Undef, Arr(<<URL>>)}, bi \in {Undef, Arr(<<URL, URL>>)},
          qs \in {Undef, Arr(<<<<"A">>>>)},
          bs \in {Undef, Arr(<<LabelB, LabelB>>)}}

FieldRequests(v, k) ==
  MixedRequests(v)
    \cup (IF v \in Flow THEN NamedRequests(k) ELSE {})
    \cup (IF v \in Flow \cup {"grid"} THEN DelimitedRequests(v, k) ELSE {})

\* one request; every fetch succeeds, the disk is healthy and the clock
\* stands at its last reading
InitFields ==
  /\ \E v \in Variants :
       /\ variant = [r \in Reqs |-> IF r = 1 THEN v ELSE "row"]
       /\ \E q \in FieldRequests(v, MaxFieldShots) :
            req = [r \in Reqs |-> IF r = 1 THEN q ELSE NoRequest]
  /\ pc = [r \in Reqs |-> IF r = 1 THEN "recv" ELSE "idle"]
  /\ net = [r \in Reqs |-> {"ok"}]
  /\ disk = {"ok"}
  /\ now = MaxTime
  /\ InitRest

SpecFields == InitFields /\ [][Next]_vars

\* ------------------------------------------------ paired specification
\* scene sequences of k shots: one scene, a scene change at every shot, and
\* two scenes of half the shots each
PairScenes(k) ==
  {[i \in 1..k |-> <<"A">>],
   [i \in 1..k |-> IF i % 2 = 1 THEN <<"A">> ELSE NoStr],
   [i \in 1..k |-> IF 2 * i <= k THEN NoStr ELSE <<"A">>]}

\* requests whose lists are aligned, over these scene sequences
PairRequests(v, k) ==
  IF v \in Flow
  THEN {FlowRequest(Arr(Repeat(URL, k)), Arr(sc), Arr(Repeat(<<"W">>, k)),
                    Arr(Repeat(<<"d">>, k)), Arr(Repeat(<<"n">>, k))) :
          sc \in PairScenes(k)}
  ELSE IF v = "grid"
  THEN {GridRequest(Arr(Repeat(URL, k)), Arr(sc), Arr(Repeat(<<"W">>, k)),
                    Arr(Repeat(<<"d">>, k))) : sc \in PairScenes(k)}
  ELSE {DynRequest(Arr(Repeat(URL, k)))}

\* two requests of one variant carrying the same fields, of up to PairShots
\* shots, handled at the same time; every fetch succeeds, the disk is
\* healthy and the clock stands at its last reading
InitPair ==
  /\ \E v \in Variants :
       /\ variant = [r \in Reqs |-> v]
       /\ \E k \in 1..PairShots :
            \E q \in PairRequests(v, k) : req = [r \in Reqs |-> q]
  /\ pc = [r \in Reqs |-> "recv"]
  /\ net = [r \in Reqs |-> {"ok"}]
  /\ disk = {"ok"}
  /\ now = MaxTime
  /\ InitRest

SpecPair == InitPair /\ [][Next]_vars

\* ---------------------------------------------- fair layout specification
\* one request with up to LiveShots shots; the network answers every fetch
\* of the run the same way, the disk is healthy and the clock stands at its
\* last reading
InitLive ==
  /\ \E v \in Variants :
       /\ variant = [r \in Reqs |-> IF r = 1 THEN v ELSE "row"]
       /\ \E k \in 1..LiveShots :
            \E q \in LayoutRequests(v, k) :
              req = [r \in Reqs |-> IF r = 1 THEN q ELSE NoRequest]
  /\ pc = [r \in Reqs |-> IF r = 1 THEN "recv" ELSE "idle"]
  /\ \E o \in {"ok", "notok"} : net = [r \in Reqs |-> {o}]
  /\ disk = {"ok"}
  /\ now = MaxTime
  /\ InitRest

\* the steps of a request that has been read
LayoutNext ==
  \E r \in Reqs :
    \/ Row_Header(r) \/ Row_RowStart(r) \/ Row_CellBegin(r) \/ Row_CellResume(r)
    \/ Y_Header(r) \/ Y_RowStart(r) \/ Y_CellBegin(r) \/ Y_CellResume(r)
    \/ Col_ShotBegin(r) \/ Col_ShotResume(r)
    \/ Grid_CellBegin(r) \/ Grid_CellResume(r)
    \/ Dyn_PageStart(r) \/ Dyn_CellBegin(r) \/ Dyn_CellResume(r)
    \/ Finish(r) \/ Save(r) \/ WriteOpen(r) \/ WriteDone(r)

\* every await settles and a handler that can go on goes on
SpecLive == InitLive /\ [][Next]_vars /\ WF_vars(LayoutNext)

\* ------------------------------------------ dynamic-grid specification
\* one request: up to DynImages images for the dynamic-grid handler, one or
\* two shots for the other handlers; the network answers every fetch of the
\* run the same way, the disk is healthy, the clock stands at its last
\* reading
InitDyn ==
  /\ \E v \in Variants :
       /\ variant = [r \in Reqs |-> IF r = 1 THEN v ELSE "row"]
       /\ \E k \in 1..(IF v = "dyn" THEN DynImages ELSE 2) :
            \E q \in LayoutRequests(v, k) :
              req = [r \in Reqs |-> IF r = 1 THEN q ELSE NoRequest]
  /\ pc = [r \in Reqs |-> IF r = 1 THEN "recv" ELSE "idle"]
  /\ \E o \in Outcomes : net = [r \in Reqs |-> {o}]
  /\ disk = {"ok"}
  /\ now = MaxTime
  /\ InitRest

\* every await settles and a handler that can go on goes on
SpecDyn == InitDyn /\ [][Next]_vars /\ WF_vars(LayoutNext)

\* ======================================================== properties
\* the request has a grouped shot list
Grouped(r) ==
  variant[r] \in {"row", "y", "grid"} /\ pc[r] \notin {"idle", "recv"}
    /\ shots[r] # <<>>

GroupLabel(r, g) == IF variant[r] = "grid" THEN g.scene ELSE g.sceneName

RECURSIVE ConcatShots(_)
ConcatShots(groups) ==
  IF groups = <<>> THEN <<>>
  ELSE Head(groups).shots \o ConcatShots(Tail(groups))

\* the positions of the shot list after which a group ends and another begins
GroupEnds(groups) ==
  {Len(ConcatShots(SubSeq(groups, 1, m))) : m \in 1..(Len(groups) - 1)}

\* C4: concatenating the shot lists of the groups groupByScene returns, in
\* group order, gives back the shot list, for both implementations
C4_GroupingRoundTrips ==
  \A r \in Reqs : Grouped(r) => ConcatShots(sceneGroups[r]) = shots[r]

\* a shot list of five or more shots grouped into three or more groups
C4_Witness ==
  \E r \in Reqs :
    Grouped(r) /\ Len(sceneGroups[r]) >= 3 /\ Len(shots[r]) >= 5

\* C5: no group is empty, every shot of a group carries the group's label,
\* and a group ends after shot i exactly when shots i and i+1 differ in
\* their scene label, the empty label being a label like any other
C5_GroupBoundaries ==
  \A r \in Reqs :
    Grouped(r) =>
      /\ \A m \in 1..Len(sceneGroups[r]) :
           /\ Len(sceneGroups[r][m].shots) >= 1
           /\ \A j \in 1..Len(sceneGroups[r][m].shots) :
                sceneGroups[r][m].shots[j].scene
                  = GroupLabel(r, sceneGroups[r][m])
      /\ GroupEnds(sceneGroups[r])
           = {i \in 1..(Len(shots[r]) - 1) :
                shots[r][i].scene # shots[r][i + 1].scene}

\* two runs of one label, apart, are two groups
C5_Witness ==
  \E r \in Reqs :
    /\ Grouped(r) /\ Len(sceneGroups[r]) >= 3
    /\ GroupLabel(r, sceneGroups[r][1]) = GroupLabel(r, sceneGroups[r][3])
    /\ GroupLabel(r, sceneGroups[r][2]) = NoStr

\* ------------------------------------------------ the record of a document
\* doc.end() has been called
Finalized(r) == draws[r] # <<>> /\ draws[r][Len(draws[r])].op = "end"

OpsOf(r, kinds) == {i \in DOMAIN draws[r] : draws[r][i].op \in kinds}

\* the operations that open the cell of a shot
CellStart == {"fetch", "caption"}

\* the shots that have a cell on page p
CellsOn(r, p) ==
  {draws[r][i].shot : i \in {j \in OpsOf(r, CellStart) : draws[r][j].page = p}}

\* the page of the cell of shot k
CellPage(r, k) ==
  draws[r][CHOOSE i \in OpsOf(r, CellStart) : draws[r][i].shot = k].page

\* the first shot of each maximal run of equal scene labels
RunStarts(sh) ==
  {s \in 1..Len(sh) : s = 1 \/ sh[s - 1].scene # sh[s].scene}

\* the first shot of the run shot k is in
RunStart(sh, k) ==
  CHOOSE s \in RunStarts(sh) :
    s <= k /\ \A j \in s..k : sh[j].scene = sh[k].scene

\* the header text a variant draws for a label
HeaderLabel(r, label) == IF variant[r] = "grid" THEN label ELSE HeaderText(label)

\* C1: whenever a header has been drawn and something was drawn after it,
\* the next thing drawn is a shot cell of the header's scene, on the header's
\* page and below the header; a header is never the last thing on its page
C1_AntiOrphan ==
  \A r \in Reqs :
    \A i \in OpsOf(r, {"header"}) :
      i < Len(draws[r]) =>
        LET h == draws[r][i]
            c == draws[r][i + 1]
        IN /\ c.op \in CellStart
           /\ c.page = h.page
           /\ c.y > h.y
           /\ c.shot = h.shot
           /\ h.text = <<HeaderLabel(r, shots[r][c.shot].scene)>>

\* a header that moved to a new page although the page before it had a
\* free row, and that has its first cell below it
C1_Witness ==
  \E i \in DOMAIN draws[1] :
    /\ variant[1] = "row" /\ i > 1 /\ i + 2 <= Len(draws[1])
    /\ draws[1][i].op = "page" /\ draws[1][i + 1].op = "header"
    /\ draws[1][i + 2].op \in CellStart
    /\ Cardinality({draws[1][j].y :
                      j \in {m \in OpsOf(1, {"header", "caption"}) :
                               draws[1][m].page = draws[1][i].page - 1}})
         = computeLayout.maxRows - 1

\* C2: in a finished document every scene group with a label has exactly
\* one header, on the page of the group's first shot, so that a group that
\* continues on a later page gets no header there
C2_NoRepeatHeader ==
  \A r \in Reqs :
    (Finalized(r) /\ variant[r] # "dyn") =>
      \A s \in RunStarts(shots[r]) :
        shots[r][s].scene # NoStr =>
          LET hs == {i \in OpsOf(r, {"header"}) :
                       RunStart(shots[r], draws[r][i].shot) = s}
          IN /\ Cardinality(hs) = 1
             /\ \A i \in hs : draws[r][i].page = CellPage(r, s)

\* the lengths of the four lists of a request, after splitting
ListLens(r) ==
  IF variant[r] = "grid"
  THEN LET F(key) ==
             Len(splitField(Coalesce(Get(req[r].body, key),
                                     Get(req[r].query, key))))
       IN {F("images"), F("scenes"), F("sizes"), F("descriptions")}
  ELSE LET d == NormalizeFlow(req[r]).details
       IN {d.images, d.scenes, d.sizes, d.descriptions}

\* C3: once a request has been read, the number of its shots is the least
\* of the lengths of its image, scene, size and description lists; when
\* that is 0 the request is answered with a validation error and nothing is
\* laid out
C3_UsableCount ==
  \A r \in Reqs :
    (variant[r] # "dyn" /\ pc[r] \notin {"idle", "recv"}) =>
      LET m == CHOOSE n \in ListLens(r) : \A o \in ListLens(r) : n <= o
      IN IF m = 0
         THEN /\ draws[r] = <<>>
              /\ Len(resp[r]) = 1 /\ resp[r][1].status = 400
         ELSE /\ Len(shots[r]) = m
              /\ \A j \in DOMAIN resp[r] : resp[r][j].status # 400

\* C10: in the fixed grid of 4 rows and 2 columns, nine shots of one
\* labelled scene give a first scene page with the header and eight cells,
\* and a next page with the ninth cell alone and no header
C10_NinthShotAlone ==
  \A r \in Reqs :
    (/\ variant[r] = "grid" /\ Finalized(r) /\ Len(shots[r]) = 9
     /\ RunStarts(shots[r]) = {1} /\ shots[r][1].scene # NoStr) =>
      LET first == CellPage(r, 1)
          headersOn(p) == {i \in OpsOf(r, {"header"}) : draws[r][i].page = p}
      IN /\ Cardinality(headersOn(first)) = 1
         /\ CellsOn(r, first) = 1..8
         /\ CellsOn(r, first + 1) = {9}
         /\ headersOn(first + 1) = {}

\* the record of a document without its images
StripImages(s) == SelectSeq(s, LAMBDA o : o.op # "image")

\* C6: a fetch that fails or throws never fails the request, and the
\* document of a request whose fetches may fail is, images apart, the
\* document of the same request with every fetch succeeding: every cell
\* keeps its slot and its caption, and the shots after it their places
C6_PartialFailure ==
  /\ \A j \in DOMAIN resp[2] :
       resp[2][j].status # 200 => (Finalized(2) /\ filename[2] # NoFile)
  /\ (Finalized(1) /\ Finalized(2)) =>
       /\ StripImages(draws[2]) = StripImages(draws[1])
       /\ \A i \in OpsOf(2, {"image"}) :
            \E j \in OpsOf(1, {"image"}) : draws[1][j] = draws[2][i]
       /\ \A k \in DOMAIN shots[1] :
            \E j \in OpsOf(1, {"image"}) : draws[1][j].shot = k

\* both documents are finished; the first image of request 2 is missing
\* and a later one is there
C6_Witness ==
  /\ Finalized(1) /\ Finalized(2) /\ pc[2] = "done"
  /\ Len(resp[2]) = 1 /\ resp[2][1].status = 200
  /\ \A i \in OpsOf(2, {"image"}) : draws[2][i].shot # 1
  /\ \E i \in OpsOf(2, {"image"}) : draws[2][i].shot = 2

\* C7: two requests never take the same filename, and no request's file is
\* written over by another's
C7_DistinctFilenames ==
  /\ \A r1, r2 \in Reqs :
       (r1 # r2 /\ filename[r1] # NoFile /\ filename[r2] # NoFile)
         => filename[r1] # filename[r2]
  /\ \A f \in DOMAIN files : ~files[f].overwritten

\* C8: a request is answered once, when it is done, and not before; a
\* success response names a file that was written completely for a finished
\* document; any other response, a failed write's among them, names no
\* file; a request that has been read and is not done can take a step
C8_OneResponse ==
  /\ \A r \in Reqs :
       /\ Len(resp[r]) <= 1
       /\ (pc[r] = "done") <=> (Len(resp[r]) = 1)
       /\ \A j \in DOMAIN resp[r] :
            IF resp[r][j].status = 200
            THEN /\ Finalized(r)
                 /\ resp[r][j].filename = filename[r]
                 /\ resp[r][j].pdfUrl = filename[r]
                 /\ filename[r] \in DOMAIN files
                 /\ files[filename[r]].complete
            ELSE /\ resp[r][j].status \in {400, 500}
                 /\ resp[r][j].filename = NoFile
                 /\ resp[r][j].pdfUrl = NoFile
  /\ (\A r \in Reqs : pc[r] \in {"idle", "recv", "done"}) \/ ENABLED Next

\* a success response after a complete write
C8_Witness ==
  \E r \in Reqs :
    /\ pc[r] = "done" /\ Len(resp[r]) = 1 /\ resp[r][1].status = 200
    /\ files[resp[r][1].filename].complete

Shot1 == <<"S", "h", "o", "t", " ", "1">>

\* the request was read by a flow variant and carries one image
OneImage(r) ==
  /\ variant[r] \in Flow /\ pc[r] \notin {"idle", "recv"}
  /\ NormalizeFlow(req[r]).details.images = 1
  /\ Get(req[r].query, "name") = Undef /\ Get(req[r].body, "name") = Undef

\* C9 as stated: a request with one image and no scene, size or description
\* is not rejected, and its document has a single cell named "Shot 1" and
\* no header
C9_OneImageNoHeader ==
  \A r \in Reqs :
    (/\ OneImage(r)
     /\ NormalizeFlow(req[r]).details.scenes = 0
     /\ NormalizeFlow(req[r]).details.sizes = 0
     /\ NormalizeFlow(req[r]).details.descriptions = 0) =>
      /\ \A j \in DOMAIN resp[r] : resp[r][j].status # 400
      /\ Finalized(r) =>
           /\ OpsOf(r, {"header"}) = {}
           /\ \E i \in OpsOf(r, {"caption"}) :
                /\ OpsOf(r, {"caption"}) = {i}
                /\ draws[r][i].text[2] = Shot1

\* C9: in the flow variants a request with one image and no name, with a
\* scene, a size and a description entry, gives a document with a single
\* cell named "Shot 1" below one header, which reads "Scene" when the scene
\* entry is empty; without a scene, a size or a description the request is
\* answered with a validation error and no document is made
C9_OneImageAmended ==
  \A r \in Reqs :
    OneImage(r) =>
      LET d == NormalizeFlow(req[r]).details
      IN IF d.scenes >= 1 /\ d.sizes >= 1 /\ d.descriptions >= 1
         THEN /\ \A j \in DOMAIN resp[r] : resp[r][j].status # 400
              /\ Finalized(r) =>
                   \E h \in OpsOf(r, {"header"}), c \in OpsOf(r, {"caption"}) :
                     /\ OpsOf(r, {"header"}) = {h}
                     /\ OpsOf(r, {"caption"}) = {c}
                     /\ h < c
                     /\ draws[r][h].page = draws[r][c].page
                     /\ draws[r][h].text = <<HeaderText(shots[r][1].scene)>>
                     /\ draws[r][c].shot = 1
                     /\ draws[r][c].text[2] = Shot1
         ELSE /\ pc[r] = "done" /\ draws[r] = <<>>
              /\ resp[r] = <<ClientError(d)>>

\* a finished document with one cell named "Shot 1" below a header that
\* reads "Scene"
C9_Witness ==
  \E r \in Reqs :
    /\ OneImage(r) /\ Finalized(r)
    /\ \E h \in OpsOf(r, {"header"}), c \in OpsOf(r, {"caption"}) :
         /\ draws[r][h].text = <<HeaderText(NoStr)>>
         /\ draws[r][c].text[2] = Shot1
         /\ OpsOf(r, {"caption"}) = {c}

\* the names list of a flow request, after splitting
NamesOf(r) ==
  splitList(Coalesce(Get(req[r].query, "name"), Get(req[r].body, "name")))

\* C11: the number of shots of a flow request is the least length of its
\* image, scene, size and description lists whatever the names list is, and
\* shot i (from 1) is named by its trimmed name entry when that is not
\* blank, and "Shot i" when the entry is missing or blank
C11_NamesOptional ==
  \A r \in Reqs :
    (variant[r] \in Flow /\ pc[r] \notin {"idle", "recv"}) =>
      LET m == CHOOSE n \in ListLens(r) : \A o \in ListLens(r) : n <= o
      IN /\ Len(shots[r]) = m
         /\ \A i \in 1..m :
              LET e == Trim(ItemOr(NamesOf(r), i - 1))
              IN shots[r][i].name =
                   IF e = NoStr
                   THEN <<"S", "h", "o", "t", " ">> \o Digits(i)
                   ELSE e

\* two shots and one name entry: the first shot keeps the name, the second
\* gets the placeholder
C11_Witness ==
  \E r \in Reqs :
    /\ variant[r] \in Flow /\ pc[r] \notin {"idle", "recv"}
    /\ Len(shots[r]) = 2 /\ Len(NamesOf(r)) = 1
    /\ shots[r][1].name = <<"m">>
    /\ shots[r][2].name = <<"S", "h", "o", "t", " ", "2">>

\* a raw per-shot field of a request, by its flow or fixed-grid key
RawField(r, flowKey, gridKey) ==
  IF variant[r] = "grid"
  THEN Coalesce(Get(req[r].body, gridKey), Get(req[r].query, gridKey))
  ELSE Coalesce(Get(req[r].query, flowKey), Get(req[r].body, flowKey))

\* the delimited entries of a string field, trimmed, blanks kept
EntriesOf(v) == Map(Split(v.s, SEP), Trim)

\* the four fields of a shot, in the order image, scene, size, description
ShotFields(r, i) ==
  IF variant[r] = "grid"
  THEN <<shots[r][i].url, shots[r][i].scene, shots[r][i].size,
         shots[r][i].desc>>
  ELSE <<shots[r][i].image, shots[r][i].scene, shots[r][i].size,
         shots[r][i].description>>

\* C12: when the four fields are delimiter-joined strings with as many
\* entries each, not all of them blank, there are as many shots, and shot k
\* carries the k-th entry of every field, a blank entry as the empty string
\* at its place
C12_PositionsKept ==
  \A r \in Reqs :
    LET im == RawField(r, "images", "images")
        sc == RawField(r, "scene", "scenes")
        sz == RawField(r, "size", "sizes")
        de == RawField(r, "description", "descriptions")
    IN (/\ variant[r] \in Flow \cup {"grid"} /\ pc[r] \notin {"idle", "recv"}
        /\ \A v \in {im, sc, sz, de} :
             /\ v.k = "str" /\ Len(EntriesOf(v)) = Len(EntriesOf(im))
             /\ \E i \in DOMAIN EntriesOf(v) : EntriesOf(v)[i] # NoStr) =>
         /\ Len(shots[r]) = Len(EntriesOf(im))
         /\ \A i \in 1..Len(EntriesOf(im)) :
              ShotFields(r, i) = <<EntriesOf(im)[i], EntriesOf(sc)[i],
                                   EntriesOf(sz)[i], EntriesOf(de)[i]>>

\* the request with every body field that the query string also carries
\* removed
QueryFirst(rq) ==
  [query |-> rq.query,
   body |-> [key \in DOMAIN rq.body \ DOMAIN rq.query |-> rq.body[key]]]

\* the shots handler v makes of a request
ShotsFrom(v, rq) ==
  IF v \in Flow THEN NormalizeFlow(rq).shots
  ELSE IF v = "grid" THEN Grid_Shots(rq)
  ELSE IF Dyn_Images(rq).k = "arr" THEN Dyn_Images(rq).a ELSE <<>>

\* C13: a request is read as if the fields of the body that the query string
\* also carries were not there: its shots and the title of its intro page
\* are those of the query string's values
C13_QueryPrecedence ==
  \A r \in Reqs :
    pc[r] \notin {"idle", "recv"} =>
      /\ shots[r] = ShotsFrom(variant[r], QueryFirst(req[r]))
      /\ \A i \in OpsOf(r, {"intro"}) :
           draws[r][i].text[1]
             = TextOr(Get(req[r].query, "title"), Get(req[r].body, "title"),
                      SHOT_LIST)

\* C14: a request answered with a validation error has no page, no header,
\* no cell, no fetch and no other operation on a document, has taken no
\* filename and has written no file, when the response is sent and after
C14_ValidationBeforeDrawing ==
  \A r \in Reqs :
    (\E j \in DOMAIN resp[r] : resp[r][j].status = 400) =>
      /\ pc[r] = "done"
      /\ pages[r] = 0
      /\ draws[r] = <<>>
      /\ shots[r] = <<>>
      /\ filename[r] = NoFile
      /\ \A f \in DOMAIN files : files[f].owner # r

\* a request with images and no usable shot, answered with a validation
\* error
C14_Witness ==
  \E r \in Reqs :
    /\ resp[r] # <<>> /\ resp[r][1].status = 400
    /\ variant[r] = "row"
    /\ NormalizeFlow(req[r]).details.images > 0
    /\ draws[r] = <<>>

\* the received lengths of the four lists of a request
ReceivedLengths(r) ==
  IF variant[r] = "grid"
  THEN [images |-> Len(splitField(RawField(r, "images", "images"))),
        scenes |-> Len(splitField(RawField(r, "scene", "scenes"))),
        sizes |-> Len(splitField(RawField(r, "size", "sizes"))),
        descriptions |->
          Len(splitField(RawField(r, "description", "descriptions")))]
  ELSE NormalizeFlow(req[r]).details

\* C15: a request whose images field is absent or empty is answered 400,
\* with the received lengths of the images, scenes, sizes and descriptions
\* lists in the response
C15_LengthDiagnostics ==
  \A r \in Reqs :
    (/\ variant[r] # "dyn" /\ pc[r] \notin {"idle", "recv"}
     /\ ReceivedLengths(r).images = 0) =>
      /\ Len(resp[r]) = 1
      /\ resp[r][1].status = 400
      /\ resp[r][1].details = ReceivedLengths(r)

\* ---------------------------------------------------- geometry of a page
\* the height of the row of shot k, the width of its cell, and the height
\* of a header band, by handler (the handlers with headers)
RowHeightOf(r, k) ==
  IF variant[r] = "row" THEN computeLayout.rowHeight
  ELSE IF variant[r] = "y" THEN SHOT_ROW_HEIGHT
  ELSE IF variant[r] = "col" THEN ROW_HEIGHT
  ELSE Grid_Cell(shots[r][k].scene, 0).cellHeight

CellWidthOf(r, k) ==
  IF variant[r] = "row" THEN computeLayout.usableWidth \div COLS
  ELSE IF variant[r] = "y" THEN pageMetrics.usableWidth \div Y_COLS
  ELSE IF variant[r] = "col" THEN ((PAGE_WIDTH - MARGIN) - MARGIN) \div 2
  ELSE Grid_Cell(shots[r][k].scene, 0).cellWidth

HeaderHeightOf(r) ==
  IF variant[r] = "row" THEN computeLayout.rowHeight
  ELSE IF variant[r] = "y" THEN Y_HEADER_HEIGHT
  ELSE IF variant[r] = "col" THEN HEADER_HEIGHT
  ELSE Pt(30)

\* the cells drawn so far: the operation that opens each, at the cell's
\* top left corner
Cells(r) == OpsOf(r, {"fetch"})

\* the rectangle of a cell and the band of a header
CellRect(r, i) ==
  [page |-> draws[r][i].page,
   left |-> draws[r][i].x,
   right |-> draws[r][i].x + CellWidthOf(r, draws[r][i].shot),
   top |-> draws[r][i].y,
   bottom |-> draws[r][i].y + RowHeightOf(r, draws[r][i].shot)]

HeaderRect(r, i) ==
  [page |-> draws[r][i].page,
   left |-> MARGIN, right |-> PAGE_WIDTH - MARGIN,
   top |-> draws[r][i].y, bottom |-> draws[r][i].y + HeaderHeightOf(r)]

Overlap(a, b) ==
  /\ a.page = b.page
  /\ a.left < b.right /\ b.left < a.right
  /\ a.top < b.bottom /\ b.top < a.bottom

\* C16: a header starts at a row boundary: every cell drawn before it on
\* its page lies in a row that ends at or above the top of the header, so
\* the band shares no vertical space with a half-filled row
C16_HeaderAtRowStart ==
  \A r \in Reqs :
    variant[r] # "dyn" =>
      \A h \in OpsOf(r, {"header"}) :
        \A c \in Cells(r) :
          (c < h /\ draws[r][c].page = draws[r][h].page) =>
            CellRect(r, c).bottom <= draws[r][h].y

\* C17: no two cells of a page overlap, no header band overlaps a cell, and
\* every cell, its full row height counted, lies within the four margins
C17_NoOverlapInMargins ==
  \A r \in Reqs :
    variant[r] # "dyn" =>
      /\ \A c, d \in Cells(r) :
           c # d => ~Overlap(CellRect(r, c), CellRect(r, d))
      /\ \A h \in OpsOf(r, {"header"}), c \in Cells(r) :
           ~Overlap(HeaderRect(r, h), CellRect(r, c))
      /\ \A c \in Cells(r) :
           /\ CellRect(r, c).left >= MARGIN
           /\ CellRect(r, c).right <= PAGE_WIDTH - MARGIN
           /\ CellRect(r, c).top >= MARGIN
           /\ CellRect(r, c).bottom <= PAGE_HEIGHT - MARGIN

\* the cell of shot k
CellOf(r, k) == CHOOSE c \in Cells(r) : draws[r][c].shot = k

\* C18: a header takes one full row: the cell drawn after it starts one row
\* height below the top of the header, no cell of the page starts within
\* that row, and the header and the shot rows of its page together count
\* at most the rows a page without header holds
C18_HeaderTakesOneRow ==
  \A r \in Reqs :
    variant[r] # "dyn" =>
      \A h \in OpsOf(r, {"header"}) :
        /\ \A c \in Cells(r) :
             draws[r][c].page = draws[r][h].page =>
               \/ draws[r][c].y < draws[r][h].y
               \/ draws[r][c].y >= draws[r][h].y
                                     + RowHeightOf(r, draws[r][c].shot)
        /\ (h < Len(draws[r]) /\ draws[r][h + 1].op = "fetch") =>
             draws[r][h + 1].y
               = draws[r][h].y + RowHeightOf(r, draws[r][h + 1].shot)

\* C19: a group whose predecessor ends on a page with room left for a
\* header and one shot row starts on that page; a page is added for a new
\* group only when that room is missing
C19_GroupContinuesOnPage ==
  \A r \in Reqs :
    variant[r] # "dyn" =>
      \A s \in RunStarts(shots[r]) :
        (s > 1 /\ \E c \in Cells(r) : draws[r][c].shot = s) =>
          LET prev == CellRect(r, CellOf(r, s - 1))
              room == prev.bottom + HeaderHeightOf(r) + RowHeightOf(r, s)
                        <= PAGE_HEIGHT - MARGIN
          IN room => draws[r][CellOf(r, s)].page = prev.page

\* (page, y, x) of a before that of b
Before(a, b) ==
  \/ a.page < b.page
  \/ a.page = b.page /\ a.y < b.y
  \/ a.page = b.page /\ a.y = b.y /\ a.x < b.x

\* C20: cells are drawn in shot order and placed in (page, row, column)
\* order, the left cell of a row before the right one, and in a finished
\* document every shot has exactly one cell
C20_CellsInInputOrder ==
  \A r \in Reqs :
    /\ \A c, d \in Cells(r) :
         c < d => /\ draws[r][c].shot < draws[r][d].shot
                  /\ Before(draws[r][c], draws[r][d])
    /\ Finalized(r) =>
         \A k \in 1..Len(shots[r]) :
           Cardinality({c \in Cells(r) : draws[r][c].shot = k}) = 1

\* a finished document of the row handler: nine shots of more than one
\* scene on three pages or more
C20_Witness ==
  /\ variant[1] = "row" /\ Finalized(1)
  /\ Len(shots[1]) = 9 /\ pages[1] >= 3
  /\ Cardinality(RunStarts(shots[1])) >= 2


\* the shots of the run that starts at shot s
RunOf(sh, s) ==
  {k \in s..Len(sh) : \A j \in (s + 1)..k : sh[j].scene = sh[j - 1].scene}

\* shots a and b are in one run
SameRun(sh, a, b) ==
  \A j \in (Min(a, b) + 1)..(IF a < b THEN b ELSE a) :
    sh[j].scene = sh[j - 1].scene

\* the shot rows that hold a cell of a shot of S: (page, y)
RowsOf(r, S) ==
  {<<draws[r][c].page, draws[r][c].y>> :
     c \in {d \in Cells(r) : draws[r][d].shot \in S}}

\* C21: no shot row holds cells of two groups; in a finished document a
\* group of n shots has (n + 1) div 2 shot rows, its shots alternate between
\* the left and the right cell from the left, a left shot and the shot after
\* it in the group share a row, and so the right cell beside the last shot
\* of an odd group holds no shot
C21_RowsPerGroup ==
  \A r \in Reqs :
    variant[r] \in Flow \cup {"grid"} =>
      /\ \A c, d \in Cells(r) :
           (draws[r][c].page = draws[r][d].page /\ draws[r][c].y = draws[r][d].y)
             => SameRun(shots[r], draws[r][c].shot, draws[r][d].shot)
      /\ Finalized(r) =>
           \A s \in RunStarts(shots[r]) :
             LET run == RunOf(shots[r], s)
                 n == Cardinality(run)
             IN /\ Cardinality(RowsOf(r, run)) = (n + 1) \div 2
                /\ \A j \in run :
                     LET c == draws[r][CellOf(r, j)]
                     IN /\ c.x = MARGIN + ((j - s) % 2) * CellWidthOf(r, j)
                        /\ ((j - s) % 2 = 0 /\ j + 1 \in run) =>
                             LET d == draws[r][CellOf(r, j + 1)]
                             IN d.page = c.page /\ d.y = c.y

\* a finished flow document with a group of three shots and a group after it
C21_Witness ==
  /\ variant[1] \in Flow /\ Finalized(1)
  /\ \E s \in RunStarts(shots[1]) :
       /\ Cardinality(RunOf(shots[1], s)) = 3
       /\ s + 3 \in RunStarts(shots[1])

\* the cursor of request r is that of a fresh page
FreshCursor(r) ==
  IF variant[r] = "row" THEN state[r].rowIndex = 0
  ELSE IF variant[r] = "y" THEN state[r] = MARGIN
  ELSE IF variant[r] = "col" THEN state[r] = [currentY |-> MARGIN, column |-> 0]
  ELSE IF variant[r] = "dyn" THEN loop[r].i = 0
  ELSE TRUE

\* C22: what is drawn first on a page is drawn on that page at the left and
\* top margins (column 0, row 0), whatever the cursor was before the page
\* was added; while nothing is drawn on the page yet the cursor stands at
\* column 0 and the top margin
C22_PageResetsCursor ==
  \A r \in Reqs :
    \A i \in OpsOf(r, {"page"}) :
      IF i < Len(draws[r])
      THEN LET o == draws[r][i + 1]
           IN o.op # "end" =>
                /\ o.op # "page"
                /\ o.page = draws[r][i].page
                /\ o.x = MARGIN
                /\ o.y = MARGIN
      ELSE FreshCursor(r)

\* a page added in the middle of a group of the y-cursor handler, with a
\* cell drawn on it
C22_Witness ==
  \E i \in OpsOf(1, {"page"}) :
    /\ variant[1] = "y" /\ draws[1][i].page >= 2 /\ i < Len(draws[1])
    /\ draws[1][i + 1].op = "fetch"
    /\ draws[1][i - 1].y > MARGIN

\* C23: pages are numbered as they are added, and every operation on the
\* document is on the page added last before it: along the record the page
\* goes up by one at a page operation and stays at every other one, so no
\* header, cell, image or caption is on a page older than one added before
\* it; the page count is the number of pages added
C23_PagesMonotonic ==
  \A r \in Reqs :
    /\ pages[r] = Cardinality(OpsOf(r, {"page"}))
    /\ \A i \in DOMAIN draws[r] :
         LET prev == IF i = 1 THEN 0 ELSE draws[r][i - 1].page
         IN draws[r][i].page
              = IF draws[r][i].op = "page" THEN prev + 1 ELSE prev
    /\ draws[r] # <<>> => draws[r][Len(draws[r])].page = pages[r]

\* a row-handler document on its third page, the caption of a cell just
\* drawn there and two cells on every page before
C23_Witness ==
  /\ variant[1] = "row" /\ pages[1] = 3
  /\ draws[1][Len(draws[1])].op = "caption"
  /\ \A p \in 1..2 : Cardinality(CellsOn(1, p)) >= 2

\* the handler draws a caption for shot k
HasCaption(r, k) ==
  IF variant[r] \in Flow THEN TRUE
  ELSE IF variant[r] = "grid" THEN Grid_Caption(shots[r][k]) # NoStr
  ELSE FALSE

\* C24: while a request waits for a fetch, the fetch is the last operation
\* of its record, and a fetch of a shot with a caption is the last operation
\* only while the request waits for it; what follows the fetch of a shot is the shot's
\* image, when the fetch gave one, and then its caption, both before any
\* other operation; an image directly follows the fetch of its shot; and so
\* the fetch of a later shot comes after the caption of every earlier one
C24_SequentialCells ==
  \A r \in Reqs :
    /\ pc[r] = "fetch" =>
         (draws[r] # <<>> /\ draws[r][Len(draws[r])].op = "fetch")
    /\ (/\ draws[r] # <<>> /\ draws[r][Len(draws[r])].op = "fetch"
        /\ HasCaption(r, draws[r][Len(draws[r])].shot)) => pc[r] = "fetch"
    /\ \A f \in OpsOf(r, {"fetch"}) :
         f < Len(draws[r]) =>
           LET k == draws[r][f].shot
               c == IF draws[r][f + 1].op = "image" THEN f + 2 ELSE f + 1
           IN /\ draws[r][f + 1].op = "image" => draws[r][f + 1].shot = k
              /\ HasCaption(r, k) =>
                   /\ c <= Len(draws[r])
                   /\ draws[r][c].op = "caption"
                   /\ draws[r][c].shot = k
    /\ \A i \in OpsOf(r, {"image"}) :
         /\ draws[r][i - 1].op = "fetch"
         /\ draws[r][i - 1].shot = draws[r][i].shot
    /\ \A f \in OpsOf(r, {"fetch"}), c \in OpsOf(r, {"caption", "image"}) :
         draws[r][c].shot < draws[r][f].shot => c < f

\* a finished two-shot document of the row handler: the first fetch gave no
\* image, the second did, and both shots have their caption
C24_Witness ==
  /\ variant[1] = "row" /\ Finalized(1) /\ Len(shots[1]) = 2
  /\ Cardinality(OpsOf(1, {"fetch"})) = 2
  /\ Cardinality(OpsOf(1, {"caption"})) = 2
  /\ \E i \in OpsOf(1, {"image"}) :
       OpsOf(1, {"image"}) = {i} /\ draws[1][i].shot = 2

\* C25: doc.end() is recorded at most once and nothing is recorded after
\* it, no page among it; when it is recorded every shot has its cell and
\* the operation before it belongs to the last shot; a file name is taken,
\* a file written and a request with a document answered only after it
C25_FinalizedOnce ==
  \A r \in Reqs :
    /\ \A i \in OpsOf(r, {"end"}) : i = Len(draws[r])
    /\ Finalized(r) =>
         /\ pc[r] \in {"save", "write", "writing", "done"}
         /\ pages[r] = draws[r][Len(draws[r])].page
         /\ draws[r][Len(draws[r]) - 1].shot = Len(shots[r])
         /\ \A k \in 1..Len(shots[r]) :
              \E i \in OpsOf(r, {"fetch", "caption"}) : draws[r][i].shot = k
    /\ (\/ pc[r] \in {"save", "write", "writing"}
        \/ filename[r] # NoFile
        \/ \E f \in DOMAIN files : files[f].owner = r
        \/ (resp[r] # <<>> /\ draws[r] # <<>>)) => Finalized(r)

\* a finished two-group document of the row handler, written and answered
C25_Witness ==
  /\ variant[1] = "row" /\ Finalized(1) /\ pc[1] = "done"
  /\ Len(sceneGroups[1]) = 2
  /\ resp[1] = <<Success(filename[1])>>
  /\ files[filename[1]].complete

\* a is an initial part of b
Prefix(a, b) == Len(a) <= Len(b) /\ SubSeq(b, 1, Len(a)) = a

\* C26: of two requests with the same fields handled at the same time,
\* however their steps interleave, the record of one is an initial part of
\* the record of the other: pages, headers and cells of a request are those
\* of the request handled alone, wherever the other request stands; so are
\* its shots and groups, and the finished documents are equal
C26_NoSharedLayout ==
  /\ Prefix(draws[1], draws[2]) \/ Prefix(draws[2], draws[1])
  /\ (pc[1] # "recv" /\ pc[2] # "recv") =>
       /\ shots[1] = shots[2]
       /\ sceneGroups[1] = sceneGroups[2]
  /\ (Finalized(1) /\ Finalized(2)) =>
       /\ draws[1] = draws[2]
       /\ pages[1] = pages[2]

\* both requests wait for a fetch, the first on its second page after a
\* page break within a group, the second still on its first page
C26_Witness ==
  /\ variant[1] \in Flow
  /\ pc[1] = "fetch" /\ pc[2] = "fetch"
  /\ pages[1] = 2 /\ pages[2] = 1
  /\ draws[1][Len(draws[1]) - 1].op = "page"
  /\ Cardinality(OpsOf(2, {"fetch"})) >= 2

\* field f (image, scene, size, description) of the shots, as a list
FieldList(r, f) == [i \in 1..Len(shots[r]) |-> ShotFields(r, i)[f]]

\* the shots the handler makes of the lists of its own shots, sent as native
\* lists or, joined, as strings joined by the delimiter
Renormalized(r, joined) ==
  LET W(l) == IF joined THEN Str(Join(l, SEP)) ELSE Arr(l)
  IN IF variant[r] = "grid"
     THEN Grid_Shots(GridRequest(W(FieldList(r, 1)), W(FieldList(r, 2)),
                                 W(FieldList(r, 3)), W(FieldList(r, 4))))
     ELSE NormalizeFlow(
            FlowRequest(W(FieldList(r, 1)), W(FieldList(r, 2)),
                        W(FieldList(r, 3)), W(FieldList(r, 4)),
                        W([i \in 1..Len(shots[r]) |-> shots[r][i].name]))).shots

\* no image, scene, size or description of a shot is blank or has spaces
\* around it
NoPlaceholder(r) ==
  \A i \in 1..Len(shots[r]) :
    \A f \in 1..4 :
      ShotFields(r, i)[f] # NoStr /\ Trim(ShotFields(r, i)[f]) = ShotFields(r, i)[f]

\* C28: the image, scene, size, description and name lists of the shots of
\* a request, normalized again, give the same shots: always when they are
\* sent as native lists, and when no entry is a placeholder also when they
\* are sent as delimited strings
C28_NormalizeIdempotent ==
  \A r \in Reqs :
    (/\ variant[r] \in Flow \cup {"grid"} /\ pc[r] \notin {"idle", "recv"}
     /\ shots[r] # <<>>) =>
      /\ Renormalized(r, FALSE) = shots[r]
      /\ NoPlaceholder(r) => Renormalized(r, TRUE) = shots[r]

\* two shots of aligned lists without placeholder, the first named by its
\* trimmed name entry and the second by the default
C28_Witness ==
  \E r \in Reqs :
    /\ variant[r] \in Flow /\ pc[r] \notin {"idle", "recv"}
    /\ Len(shots[r]) = 2 /\ NoPlaceholder(r)
    /\ ListLens(r) = {2}
    /\ shots[r][1].name = <<"m">>
    /\ shots[r][2].name = <<"S", "h", "o", "t", " ", "2">>

\* a call of drawShotRow returns to the row loop of a group
RowLoopTurns(r) ==
  /\ variant[r] \in {"row", "y"}
  /\ pc[r] \in {"cell", "fetch"}
  /\ pc'[r] \in {"row", "group", "end"}

\* C29: every turn of the row loop leaves the shot index greater than it
\* found it, whether or not a page was added first, and a request that has
\* shots reaches doc.end() with one cell for every shot and as many shots
\* as its shortest list has entries
C29_LayoutTerminates ==
  /\ [][\A r \in Reqs :
          RowLoopTurns(r) => loop'[r].shotIndex > loop[r].shotIndex]_vars
  /\ \A r \in Reqs :
       (shots[r] # <<>>)
         ~> (/\ Finalized(r)
             /\ Cardinality(Cells(r)) = Len(shots[r])
             /\ variant[r] # "dyn" =>
                  Len(shots[r]) = ReceivedLengths(r).images)

\* a finished document of five or more shots of the row handler with a page
\* added inside a group, between two of its rows
C29_Witness ==
  /\ variant[1] = "row" /\ Finalized(1) /\ Len(shots[1]) >= 5
  /\ Cardinality(Cells(1)) = Len(shots[1])
  /\ \E i \in OpsOf(1, {"page"}) :
       /\ i > 1 /\ i < Len(draws[1])
       /\ draws[1][i - 1].op = "caption" /\ draws[1][i + 1].op = "fetch"
       /\ shots[1][draws[1][i - 1].shot].scene
            = shots[1][draws[1][i + 1].shot].scene

\* the images of request r that are not on a page before page p
LeftBefore(r, p) ==
  Len(shots[r]) - Cardinality({c \in Cells(r) : draws[r][c].page < p})

\* C30: in the dynamic-grid handler the grid of a page has a slot for each
\* image left when at most 12 are left and is 2 x 5 otherwise; every image
\* of the page is in a slot of the grid, row below rows and column below
\* cols, inside the margins, and no two images share a slot; a page takes
\* all the images left when they are at most 12 and 10 of them otherwise;
\* and a request with images reaches doc.end() with one slot for every image
C30_DynamicGrid ==
  /\ [](\A r \in Reqs :
          variant[r] = "dyn" =>
            /\ pc[r] \in {"cell", "fetch"} =>
                 LET l == loop[r]
                 IN /\ l.remaining <= 12 => l.rows * l.cols >= l.remaining
                    /\ l.remaining > 12 => (l.rows = 2 /\ l.cols = 5)
                    /\ l.remaining = Len(shots[r]) - (l.index - l.i)
                    /\ l.i \div l.cols < l.rows /\ l.i % l.cols < l.cols
                    /\ l.index < Len(shots[r])
                    /\ Dyn_Slot(l).x + (PAGE_WIDTH - MARGIN - MARGIN) \div l.cols
                         <= PAGE_WIDTH - MARGIN
                    /\ Dyn_Slot(l).y + (PAGE_HEIGHT - MARGIN - MARGIN) \div l.rows
                         <= PAGE_HEIGHT - MARGIN
            /\ \A c, d \in Cells(r) :
                 (/\ draws[r][c].page = draws[r][d].page
                  /\ draws[r][c].x = draws[r][d].x
                  /\ draws[r][c].y = draws[r][d].y) => c = d
            /\ Finalized(r) =>
                 /\ \A k \in 1..Len(shots[r]) :
                      Cardinality({c \in Cells(r) : draws[r][c].shot = k}) = 1
                 /\ \A p \in 2..pages[r] :
                      Cardinality(CellsOn(r, p))
                        = IF LeftBefore(r, p) <= 12 THEN LeftBefore(r, p) ELSE 10)
  /\ \A r \in Reqs :
       (variant[r] = "dyn" /\ shots[r] # <<>>) ~> Finalized(r)

\* a finished document of 23 images: two pages of ten and a page of three
C30_Witness ==
  /\ variant[1] = "dyn" /\ Finalized(1) /\ Len(shots[1]) = 23
  /\ pages[1] = 4
  /\ Cardinality(CellsOn(1, 2)) = 10 /\ Cardinality(CellsOn(1, 4)) = 3

\* ------------------------------------------- the two groupings compared
\* the groups of either implementation as <<label, shots>> pairs, the
\* label being the field scene of the accumulator's groups and the field
\* sceneName of the run-based ones
AccPairs(groups) ==
  [m \in 1..Len(groups) |-> <<groups[m].scene, groups[m].shots>>]

RunPairs(groups) ==
  [m \in 1..Len(groups) |-> <<groups[m].sceneName, groups[m].shots>>]

\* C31: the single-pass groupByScene with a current-group accumulator and
\* the groupByScene of nested while loops over runs return, for the shot
\* list of every request, the same number of groups with the same scene
\* labels and the same shot lists in the same order: the groups a handler
\* computed with its own implementation are those the other implementation
\* returns for the same shots
C31_GroupingsEquivalent ==
  \A r \in Reqs :
    Grouped(r) =>
      IF variant[r] = "grid"
      THEN AccPairs(sceneGroups[r]) = RunPairs(groupByScene(shots[r]))
      ELSE RunPairs(sceneGroups[r]) = AccPairs(groupBySceneAcc(shots[r]))

\* the fixed-grid handler has grouped a list that begins with unlabelled
\* shots, returns to a label it left and ends in a run of two or more
C31_Witness ==
  \E r \in Reqs :
    /\ Grouped(r) /\ variant[r] = "grid"
    /\ Len(sceneGroups[r]) >= 4
    /\ sceneGroups[r][1].scene = NoStr
    /\ sceneGroups[r][2].scene = sceneGroups[r][4].scene
    /\ Len(sceneGroups[r][Len(sceneGroups[r])].shots) >= 2
=============================================================================
